---- MODULE Spec2Model ----
(***************************************************************************)
(* File intake of picard.tagger.Tagger: add_files, the load-completion     *)
(* callback _file_loaded, move_file, clustering completion and the         *)
(* remove_* operations, over the entity graph (files, clusters, albums,    *)
(* non-album tracks, the unclustered pool).                                *)
(*                                                                         *)
(* All actions below are steps of the control (Qt main) thread.  The       *)
(* worker threads only appear as the in-flight tasks whose completion      *)
(* callbacks those steps are: `loading` (File.load) and `clusterTasks`     *)
(* (thread.run_task of _do_clustering).                                    *)
(***************************************************************************)
EXTENDS Integers, Sequences, FiniteSets, TLC

\* ------------------------------------------------------------------ bounds
\* Canonical file names are 0..MaxFiles, File objects 1..MaxObjs, add_files
\* batches 1..MaxBatches.
MaxFiles == 3
MaxObjs == 2
MaxBatches == 2
\* Length of the filenames argument of one add_files call.
MaxPaths == 2

\* add_files calls processEvents after every 17th submitted file
\* (i % 17 == 0, so also right after the first one).
ProcessEventsEvery == 17

\* ------------------------------------------------------------------ values
FileNames == 0..MaxFiles
Objs == 1..MaxObjs
NoObj == 0

\* Raw paths as passed by the caller.  Every canonical name is its own
\* spelling; MaxFiles + 1 is a second spelling ("dir/../name") of MaxFiles.
RawPaths == 0..(MaxFiles + 1)

\* picard.util.normpath: the canonical form of a raw path.
normpath(p) == IF p > MaxFiles THEN MaxFiles ELSE p

\* Name 0 is ".smbdelete0", name 1 is ".a": both start with a dot.
is_hidden(fn) == fn \in {0, 1}

\* os.path.basename(filename).startswith(".smbdelete")
is_smbdelete(fn) == fn = 0

\* config.setting['ignore_regex']: "" (no pattern), "valid" (a pattern that
\* compiles and matches name 2 only), "malformed" (re.compile raises).
IgnorePatterns == {"", "valid", "malformed"}

\* Variant of compile_ignore_regex in which a malformed pattern yields a regex
\* (one that matches what the valid pattern matches).
compile_ignore_regex_lenient(pattern) == IF pattern = "" THEN "None" ELSE "valid"

\* re.compile(pattern), None when it raises re.error or no pattern is set.
compile_ignore_regex(pattern) == IF pattern = "valid" THEN "valid" ELSE "None"

\* ignoreregex.search(filename)
regex_search(regex, fn) == regex = "valid" /\ fn = 2

\* Values of the musicbrainz_albumid / musicbrainz_recordingid tags:
\* 0 is "tag absent" (''), -1 a non-empty string that is no MBID, 1 an MBID.
MbidValues == {-1, 0, 1}
Mbids == {1}

\* picard.util.mbid_validate
mbid_validate(id) == id \in Mbids

\* Keys (title, artist) of clusters.
ClusterKeys == {1}

\* ------------------------------------------------------------------ containers
\* A container or move target is a triple <<kind, a, b>>.
NoParent == <<"None", 0, 0>>
UNCLUSTERED == <<"unclustered", 0, 0>>
ClusterC(k) == <<"cluster", k, 0>>
\* album.unmatched_files of album a; album 0 is the 'NATS' album.
AlbumUnmatched(a) == <<"album_unmatched", a, 0>>
\* track of recording r on album a; TrackC(0, r) is the non-album track r.
TrackC(a, r) == <<"track", a, r>>
\* Move targets that are no containers.
NoTarget == NoParent
AlbumT(a) == <<"Album", a, 0>>
FileT(o) == <<"File", o, 0>>
CLUSTERLIST == <<"ClusterList", 0, 0>>
NATS == 0

\* hasattr(to, 'add_file')
has_add_file(c) == c[1] \in {"unclustered", "cluster", "album_unmatched", "track"}

VARIABLES
    pending_files_count,  \* Tagger._pending_files_count
    files,                \* Tagger.files: file name -> File object (NoObj: no key)
    fobj,                 \* File objects: [filename, state, batch, match_recordingid]
    parent_item,          \* File.parent_item
    cfiles,               \* {<<container, file>>}: the containers' file lists
    clusters,             \* Tagger.clusters: sequence of cluster keys
    albums,               \* Tagger.albums: id -> "absent" | "loading" | "loaded"
    nats,                 \* Tagger.nats is not None
    nat_tracks,           \* Tagger.nats.tracks: recording id -> load state
    nat_waiting,          \* {<<recording, file>>}: nat.run_when_loaded callbacks
    analyzing,            \* files handed to the fingerprint client
    loading,              \* file -> number of File.load tasks in flight
    batches,              \* per add_files batch: its bound arguments and log
    addStack,             \* add_files calls suspended in processEvents
    clusterTasks,         \* clustering tasks in flight (tuples of files)
    window,               \* calls of suspend_while_loading_enter / _exit
    last,                 \* the call that just ran: its arguments and what it did
    config                \* config.setting

\* The remote command queue and its consumer (run_commands).
VARIABLES
    command_queue,           \* RemoteCommands.command_queue: the commands not yet dequeued
    cmd_running,             \* the flag of RemoteCommands.get_running / set_running
    command_thread_running,  \* Tagger._command_thread_running
    stopping,                \* Tagger.stopping
    callers,                 \* position of each thread in load_to_picard
    consumers,               \* the threads running run_commands: position and locals
    mainq,                   \* events posted to the control thread by thread.to_main*
    work,                    \* {<<resource, origin>>}: tasks, web requests, fingerprint jobs;
                             \* the origin is a command's id, or negative for no command
    cmdlog                   \* history: commands enqueued, dequeued, dispatched, completed, acknowledged

intakevars == <<pending_files_count, files, fobj, parent_item, cfiles, clusters, albums,
                nats, nat_tracks, nat_waiting, analyzing, loading, batches, addStack,
                clusterTasks, window, last, config>>

cmdvars == <<command_queue, cmd_running, command_thread_running, stopping, callers,
             consumers, mainq, work, cmdlog>>

\* The shutdown: exit(), the cleanup functions, the event loop and the signals.
VARIABLES
    exit_cleanup,     \* Tagger.exit_cleanup: the registered cleanup functions
    cleaned,          \* history: the cleanup functions called, in order
    exit_state,       \* the control thread inside exit(): where it is, who called
    app,              \* the event loop: "exec", "quit" (told to return), "ended"
    signalfd,         \* bytes written to signalfd[0] and not read from signalfd[1]
    signalnotifier,   \* signalnotifier.isEnabled()
    pipe_running,     \* pipe_handler.pipe_running
    sighandled        \* history: number of sighandler calls

exitvars == <<exit_cleanup, cleaned, exit_state, app, signalfd, signalnotifier,
              pipe_running, sighandled>>

vars == <<intakevars, cmdvars, exitvars>>

\* Value of `last` after a call the properties do not look at.
NoCall == [op |-> "other"]

\* The entity graph as one value, so that the methods compose.
Graph == [files |-> files, fobj |-> fobj, parent_item |-> parent_item,
          cfiles |-> cfiles, clusters |-> clusters, albums |-> albums,
          nats |-> nats, nat_tracks |-> nat_tracks, nat_waiting |-> nat_waiting,
          analyzing |-> analyzing, clusterTasks |-> clusterTasks]

SetGraph(g) ==
    /\ files' = g.files
    /\ fobj' = g.fobj
    /\ parent_item' = g.parent_item
    /\ cfiles' = g.cfiles
    /\ clusters' = g.clusters
    /\ albums' = g.albums
    /\ nats' = g.nats
    /\ nat_tracks' = g.nat_tracks
    /\ nat_waiting' = g.nat_waiting
    /\ analyzing' = g.analyzing
    /\ clusterTasks' = g.clusterTasks

\* ------------------------------------------------------------------ helpers
RECURSIVE SeqToSet(_)
SeqToSet(s) == IF s = <<>> THEN {} ELSE {Head(s)} \cup SeqToSet(Tail(s))

\* The unique elements of a sequence, in order of first appearance.
RECURSIVE Unique(_)
Unique(s) ==
    IF s = <<>> THEN <<>>
    ELSE LET r == Unique(SubSeq(s, 1, Len(s) - 1))
         IN IF s[Len(s)] \in SeqToSet(r) THEN r ELSE Append(r, s[Len(s)])

\* ------------------------------------------------------------------ File, Cluster, Album
\* container.remove_file(file): the file leaves its parent's file list.
Detach(g, o) ==
    [g EXCEPT !.cfiles = @ \ {<<g.parent_item[o], o>>},
              !.parent_item[o] = NoParent]

\* container.add_file(file) / add_files: the file leaves its old parent and is
\* held by container c.
Attach(g, c, o) ==
    [g EXCEPT !.cfiles = (@ \ {<<g.parent_item[o], o>>}) \cup {<<c, o>>},
              !.parent_item[o] = c]

\* File.move(to) returns True iff `to` can hold files and is not the parent.
File_move_ok(g, o, to) == has_add_file(to) /\ to # g.parent_item[o]

\* File.move(to)
File_move(g, o, to) == IF File_move_ok(g, o, to) THEN Attach(g, to, o) ELSE g

\* File.remove(from_parent): detach (if asked to) and mark the file removed.
File_remove(g, o, from_parent) ==
    LET g1 == IF from_parent /\ g.parent_item[o] # NoParent THEN Detach(g, o) ELSE g
    IN [g1 EXCEPT !.fobj[o].state = "removed"]

\* Album.match_files([file]): onto the track of file.match_recordingid when the
\* album is loaded and the file names a recording, else into the album's
\* unmatched files (where it waits for the album to load).
Album_match_files(g, a, o) ==
    IF g.albums[a] = "loaded" /\ g.fobj[o].match_recordingid # 0
    THEN File_move(g, o, TrackC(a, g.fobj[o].match_recordingid))
    ELSE File_move(g, o, AlbumUnmatched(a))

\* ------------------------------------------------------------------ Tagger
\* Tagger.load_album(album_id)
load_album(g, album_id) ==
    IF g.albums[album_id] # "absent" THEN g
    ELSE [g EXCEPT !.albums[album_id] = "loading"]

\* Tagger.move_files_to_album([file], album=album)
move_files_to_album(g, o, a) == Album_match_files(g, a, o)

\* Tagger.move_file_to_album(file, albumid)
move_file_to_album(g, o, albumid) ==
    move_files_to_album(load_album(g, albumid), o, albumid)

\* Tagger.move_file_to_track(file, albumid, recordingid)
move_file_to_track(g, o, albumid, recordingid) ==
    LET g1 == load_album(g, albumid)
        g2 == [g1 EXCEPT !.fobj[o].match_recordingid = recordingid]
    IN Album_match_files(g2, albumid, o)

\* Variant of create_nats that does not enter the new NatAlbum in self.albums.
create_nats_unregistered(g) ==
    IF ~g.nats THEN [g EXCEPT !.nats = TRUE] ELSE g

\* Tagger.create_nats()
create_nats(g) ==
    IF ~g.nats THEN [g EXCEPT !.nats = TRUE, !.albums[NATS] = "loaded"] ELSE g

\* Tagger.load_nat(nat_id): the track is created loading unless it exists.
load_nat(g, nat_id) ==
    LET g1 == create_nats(g)
    IN IF g1.nat_tracks[nat_id] # "absent" THEN g1
       ELSE [g1 EXCEPT !.nat_tracks[nat_id] = "loading"]

\* Tagger.move_file_to_nat(file, recordingid)
move_file_to_nat(g, o, recordingid) ==
    LET g1 == create_nats(g)
        g2 == File_move(g1, o, AlbumUnmatched(NATS))
        g3 == load_nat(g2, recordingid)
    IN IF g3.nat_tracks[recordingid] = "loaded"
       THEN File_move(g3, o, TrackC(NATS, recordingid))
       ELSE [g3 EXCEPT !.nat_waiting = @ \cup {<<recordingid, o>>}]

\* Variant of move_file that leaves a rejected file where it is (no fallback
\* to the unclustered pool).
move_file_without_fallback(g, o, target) ==
    IF target[1] = "Album"
    THEN [g |-> move_files_to_album(g, o, target[2]), target |-> target]
    ELSE LET t == IF target[1] = "File" /\ g.parent_item[target[2]] # NoParent
                  THEN g.parent_item[target[2]] ELSE target
         IN IF File_move_ok(g, o, t)
            THEN [g |-> File_move(g, o, t), target |-> t]
            ELSE [g |-> g, target |-> NoTarget]

\* Tagger.move_file(file, target): [g: the graph after, target: the value returned]
move_file(g, o, target) ==
    IF target[1] = "Album"
    THEN [g |-> move_files_to_album(g, o, target[2]), target |-> target]
    ELSE LET t == IF target[1] = "File" /\ g.parent_item[target[2]] # NoParent
                  THEN g.parent_item[target[2]] ELSE target
         IN IF File_move_ok(g, o, t)
            THEN [g |-> File_move(g, o, t), target |-> t]
            ELSE IF g.parent_item[o] = NoParent
                 THEN [g |-> File_move(g, o, UNCLUSTERED), target |-> UNCLUSTERED]
                 ELSE [g |-> g, target |-> NoTarget]

\* Tagger.analyze([file])
analyze(g, o, can_analyze, cfg) ==
    IF ~cfg.use_acoustid THEN g
    ELSE IF can_analyze THEN [g EXCEPT !.analyzing = @ \cup {o}] ELSE g

\* Tagger.cluster(objs): the files of objs, each once, go to a clustering task.
cluster(g, objs) == [g EXCEPT !.clusterTasks = @ \cup {Unique(objs)}]

\* What is seen of file o in graph g after a call made by remove_files.
Observe(call, g, o) ==
    [call |-> call,
     is_key |-> g.files[g.fobj[o].filename] # NoObj,
     holders |-> {c[1] : c \in {x \in g.cfiles : x[2] = o}},
     analyzing |-> o \in g.analyzing,
     state |-> g.fobj[o].state]

\* Variant of remove_file_steps that drops and detaches the file before it
\* asks for the cancellations.
remove_file_steps_cancel_last(g, o, from_parent) ==
    IF g.files[g.fobj[o].filename] = NoObj THEN <<>>
    ELSE LET g1 == [g EXCEPT !.files[g.fobj[o].filename] = NoObj]
             g2 == File_remove(g1, o, from_parent)
             g3 == [g2 EXCEPT !.analyzing = @ \ {o}]
         IN <<Observe("del", g1, o), Observe("remove", g2, o),
              Observe("clear_lookup_task", g2, o), Observe("stop_analyze", g3, o)>>

\* The calls remove_files makes for one file, in order, each with what is
\* seen of the file after it.  No call is made for a name that is no key.
remove_file_steps(g, o, from_parent) ==
    IF g.files[g.fobj[o].filename] = NoObj THEN <<>>
    ELSE LET g1 == [g EXCEPT !.analyzing = @ \ {o}]
             g2 == [g1 EXCEPT !.files[g.fobj[o].filename] = NoObj]
             g3 == File_remove(g2, o, from_parent)
         IN <<Observe("clear_lookup_task", g, o), Observe("stop_analyze", g1, o),
              Observe("del", g2, o), Observe("remove", g3, o)>>

\* Variant of remove_files that does not test whether the file's name is a key.
RECURSIVE remove_files_unchecked(_, _, _)
remove_files_unchecked(g, fs, from_parent) ==
    IF fs = <<>> THEN g
    ELSE LET o == Head(fs)
             g1 == File_remove(
                          [g EXCEPT !.analyzing = @ \ {o},
                                    !.files[g.fobj[o].filename] = NoObj],
                          o, from_parent)
         IN remove_files_unchecked(g1, Tail(fs), from_parent)

\* Tagger.remove_files(files, from_parent), for one file after the other.
RECURSIVE remove_files(_, _, _)
remove_files(g, fs, from_parent) ==
    IF fs = <<>> THEN g
    ELSE LET o == Head(fs)
             g1 == IF g.files[g.fobj[o].filename] # NoObj
                   THEN File_remove(
                          [g EXCEPT !.analyzing = @ \ {o},
                                    !.files[g.fobj[o].filename] = NoObj],
                          o, from_parent)
                   ELSE g
         IN remove_files(g1, Tail(fs), from_parent)

\* Variant of file_loaded_error that also counts the failed file as unmatched.
file_loaded_error_unmatched(g, o, unmatched) ==
    [g |-> Attach(g, UNCLUSTERED, o), unmatched |-> Append(unmatched, o),
     clustered |-> <<>>, via |-> "has_error"]

\* _file_loaded for a file whose load failed: into the unclustered pool, and
\* nothing else.
file_loaded_error(g, o, unmatched) ==
    [g |-> Attach(g, UNCLUSTERED, o), unmatched |-> unmatched,
     clustered |-> <<>>, via |-> "has_error"]

\* Variant of mbid_branch that looks at the recording MBID first.
mbid_branch_recording_first(cfg, is_valid_albumid, is_valid_recordingid) ==
    IF cfg.ignore_file_mbids THEN "move_file"
    ELSE IF is_valid_recordingid THEN "move_file_to_nat"
    ELSE IF is_valid_albumid THEN "move_file_to_album"
    ELSE "move_file"

\* The branch of _file_loaded that places a loaded file, from the validity of
\* its release and recording MBIDs.
mbid_branch(cfg, is_valid_albumid, is_valid_recordingid) ==
    IF cfg.ignore_file_mbids THEN "move_file"
    ELSE IF is_valid_albumid /\ is_valid_recordingid THEN "move_file_to_track"
    ELSE IF is_valid_albumid THEN "move_file_to_album"
    ELSE IF is_valid_recordingid THEN "move_file_to_nat"
    ELSE "move_file"

\* Tagger._file_loaded(file, target, remove_file, unmatched_files) with the
\* counter already decremented to cnt; md is the metadata the load gave the
\* file.  Result: the graph, the batch's unmatched list, the argument of the
\* cluster() call made (<<>>: none) and the branch that placed the file.
file_loaded_body(g, cnt, o, target, remove_file, unmatched, md, cfg) ==
    IF remove_file
    THEN [g |-> File_remove(g, o, TRUE), unmatched |-> unmatched,
          clustered |-> <<>>, via |-> "remove_file"]
    ELSE IF g.fobj[o].state = "error"
    THEN file_loaded_error(g, o, unmatched)
    ELSE
    LET via == mbid_branch(cfg, mbid_validate(md.albumid), mbid_validate(md.recordingid))
        mv == CASE via = "move_file_to_track" ->
                     [g |-> move_file_to_track(g, o, md.albumid, md.recordingid),
                      target |-> target]
                [] via = "move_file_to_album" ->
                     [g |-> move_file_to_album(g, o, md.albumid), target |-> target]
                [] via = "move_file_to_nat" ->
                     [g |-> move_file_to_nat(g, o, md.recordingid), target |-> target]
                [] OTHER -> move_file(g, o, target)
        file_moved == \/ via # "move_file"
                      \/ mv.target # NoTarget /\ mv.target # UNCLUSTERED
        unmatched1 == IF ~file_moved THEN Append(unmatched, o) ELSE unmatched
        g2 == IF ~file_moved /\ cfg.analyze_new_files /\ md.can_analyze
              THEN analyze(mv.g, o, md.can_analyze, cfg) ELSE mv.g
        do_cluster == cnt = 0 /\ unmatched1 # <<>> /\ cfg.cluster_new_files
    IN [g |-> IF do_cluster THEN cluster(g2, unmatched1) ELSE g2,
        unmatched |-> unmatched1,
        clustered |-> IF do_cluster THEN Unique(unmatched1) ELSE <<>>,
        via |-> via]

\* ------------------------------------------------------------------ add_files
\* The File object open_file returns next: the lowest one not yet in use.
NewObj(fo) == CHOOSE o \in Objs : fo[o].state = "unused" /\ \A p \in 1..(o - 1) : fo[p].state # "unused"

\* Variant of add_files_ignores without the hidden-file test.
add_files_ignores_not_hidden(filename, ignoreregex, cfg) ==
    \/ is_smbdelete(filename)
    \/ ignoreregex # "None" /\ regex_search(ignoreregex, filename)

\* Whether add_files skips the (canonical) file name before looking it up.
add_files_ignores(filename, ignoreregex, cfg) ==
    \/ cfg.ignore_hidden_files /\ is_hidden(filename)
    \/ is_smbdelete(filename)
    \/ ignoreregex # "None" /\ regex_search(ignoreregex, filename)

\* Variant of add_files_is_new without the lookup in Tagger.files.
add_files_is_new_always(fs, filename) == TRUE

\* Whether add_files opens the file name: it is no key of Tagger.files yet.
add_files_is_new(fs, filename) == fs[filename] = NoObj

\* The first loop of add_files over filenames[i..]; openOK[i] tells whether
\* open_file returns a File for paths[i].  acc: [files, fobj, new_files, opened
\* (the open_file calls: the name and the File returned, NoObj for None),
\* overflow (more File objects needed than the model has)].
RECURSIVE add_files_scan(_, _, _, _, _, _)
add_files_scan(paths, openOK, i, acc, ignoreregex, cfg) ==
    IF i > Len(paths) THEN acc
    ELSE
    LET filename == normpath(paths[i])
        acc1 ==
          IF add_files_ignores(filename, ignoreregex, cfg) THEN acc
          ELSE IF ~add_files_is_new(acc.files, filename) THEN acc
          ELSE IF ~openOK[i]
               THEN [acc EXCEPT !.opened = Append(@, [name |-> filename, file |-> NoObj])]
          ELSE IF \A o \in Objs : acc.fobj[o].state # "unused"
               THEN [acc EXCEPT !.overflow = TRUE]
          ELSE LET o == NewObj(acc.fobj)
               IN [acc EXCEPT !.opened = Append(@, [name |-> filename, file |-> o]),
                              !.files[filename] = o,
                              !.fobj[o].filename = filename,
                              !.fobj[o].state = "pending",
                              !.new_files = Append(@, o)]
    IN add_files_scan(paths, openOK, i + 1, acc1, ignoreregex, cfg)

\* Variant of SortByFilename that leaves new_files in the order of the input.
SortByFilename_unsorted(s, fo) == s

\* new_files.sort(key=lambda x: x.filename)
RECURSIVE SortByFilename(_, _)
SortByFilename(s, fo) ==
    IF s = <<>> THEN <<>>
    ELSE LET m == CHOOSE i \in 1..Len(s) :
                     /\ \A j \in 1..Len(s) : fo[s[i]].filename <= fo[s[j]].filename
                     /\ \A j \in 1..(i - 1) : fo[s[j]].filename # fo[s[i]].filename
             rest == [j \in 1..(Len(s) - 1) |-> IF j < m THEN s[j] ELSE s[j + 1]]
         IN <<s[m]>> \o SortByFilename(rest, fo)

\* Variant of pending_after_add that counts one file too few.
pending_after_add_short(cnt, new_files) == cnt + Len(new_files) - 1

\* self._pending_files_count += len(new_files)
pending_after_add(cnt, new_files) == cnt + Len(new_files)

\* self._pending_files_count -= 1
pending_after_load(cnt) == cnt - 1

\* How many of the files rest[1..], the first of which has index i in
\* new_files, the submission loop loads before it next calls processEvents
\* (after a file whose index is a multiple of 17) or ends.
RECURSIVE SubmitCount(_, _)
SubmitCount(rest, i) ==
    IF rest = <<>> THEN 0
    ELSE IF i % ProcessEventsEvery = 0 THEN 1
    ELSE 1 + SubmitCount(Tail(rest), i + 1)

\* file.load(...) for each file of fs: one more load task in flight per file.
RECURSIVE SubmitLoads(_, _)
SubmitLoads(ld, fs) ==
    IF fs = <<>> THEN ld
    ELSE SubmitLoads([ld EXCEPT ![Head(fs)] = @ + 1], Tail(fs))

\* The values the caller of add_files can pass as target.
Targets ==
    {NoTarget, CLUSTERLIST, UNCLUSTERED}
    \cup {ClusterC(clusters[i]) : i \in 1..Len(clusters)}
    \cup {AlbumT(a) : a \in {x \in Mbids : albums[x] # "absent"}}
    \cup {FileT(o) : o \in {x \in Objs : fobj[x].state \in {"normal", "error"}}}

\* add_files(filenames, target) up to its first processEvents in the
\* submission loop: the scan, the batch-start notification, the counter
\* increment and the load of the first file.
\* The processEvents call after each open_file of the scan is no step of its
\* own here: a new name is a key of Tagger.files before that call, and a
\* callback that runs in it meets the new File as it meets one whose load the
\* submission loop has not yet submitted (addStack), the counter apart, which
\* does not count the new File yet.
AddFiles(paths, target, openOK) ==
    /\ Len(batches) < MaxBatches
    /\ LET ignoreregex == compile_ignore_regex(config.ignore_regex)
           sc == add_files_scan(paths, openOK, 1,
                     [files |-> files, fobj |-> fobj, new_files |-> <<>>,
                      opened |-> <<>>, overflow |-> FALSE], ignoreregex, config)
           nopattern == add_files_scan(paths, openOK, 1,
                     [files |-> files, fobj |-> fobj, new_files |-> <<>>,
                      opened |-> <<>>, overflow |-> FALSE], "None", config)
           b == Len(batches) + 1
           new_files == SortByFilename(sc.new_files, sc.fobj)
           n == SubmitCount(new_files, 0)
       IN /\ ~sc.overflow
          /\ last' = [op |-> "add_files", paths |-> paths, opened |-> sc.opened,
                      new_files |-> new_files,
                      keys |-> {fn \in FileNames : files[fn] # NoObj},
                      count |-> pending_files_count,
                      nopattern |-> [i \in 1..Len(nopattern.opened) |->
                                       nopattern.opened[i].name]]
          /\ files' = sc.files
          /\ fobj' = [o \in Objs |-> IF o \in SeqToSet(new_files)
                                     THEN [sc.fobj[o] EXCEPT !.batch = b]
                                     ELSE sc.fobj[o]]
          /\ IF new_files = <<>>
             THEN UNCHANGED <<pending_files_count, window, batches, loading, addStack>>
             ELSE /\ window' = [window EXCEPT !.enter = @ + 1]
                  /\ pending_files_count' = pending_after_add(pending_files_count, new_files)
                  /\ batches' = Append(batches,
                        [target |-> target, unmatched |-> <<>>, size |-> Len(new_files),
                         done |-> 0, zeroed |-> 0, clustered |-> <<>>])
                  /\ loading' = SubmitLoads(loading, SubSeq(new_files, 1, n))
                  /\ addStack' = IF n < Len(new_files)
                                 THEN Append(addStack,
                                        [rest |-> SubSeq(new_files, n + 1, Len(new_files)),
                                         i |-> n])
                                 ELSE addStack
    /\ UNCHANGED <<parent_item, cfiles, clusters, albums, nats, nat_tracks,
                   nat_waiting, analyzing, clusterTasks, config>>
    /\ UNCHANGED <<cmdvars, exitvars>>

\* The submission loop of the innermost suspended add_files call goes on, up
\* to its next processEvents or its end.
AddFilesContinue ==
    /\ addStack # <<>>
    /\ LET fr == addStack[Len(addStack)]
           n == SubmitCount(fr.rest, fr.i)
           below == SubSeq(addStack, 1, Len(addStack) - 1)
       IN /\ loading' = SubmitLoads(loading, SubSeq(fr.rest, 1, n))
          /\ addStack' = IF n < Len(fr.rest)
                         THEN Append(below, [rest |-> SubSeq(fr.rest, n + 1, Len(fr.rest)),
                                             i |-> fr.i + n])
                         ELSE below
    /\ last' = [op |-> "add_files_continue"]
    /\ UNCHANGED <<pending_files_count, files, fobj, parent_item, cfiles, clusters,
                   albums, nats, nat_tracks, nat_waiting, analyzing, batches,
                   clusterTasks, window, config>>
    /\ UNCHANGED <<cmdvars, exitvars>>

\* ------------------------------------------------------------------ load completion
\* The batch log after a completion of a file of batch b that left the counter
\* at cnt: one more file of b done; a counter that reached zero did so during
\* the life of every batch that still had files to complete.  The callback
\* bound to the batch's target is gone with the batch's last completion.
LogCompletion(bs, b, cnt, r) ==
    [x \in 1..Len(bs) |->
        LET open == bs[x].done < bs[x].size
            e == IF cnt = 0 /\ open THEN [bs[x] EXCEPT !.zeroed = @ + 1] ELSE bs[x]
        IN IF x # b THEN e
           ELSE [e EXCEPT !.done = @ + 1,
                          !.target = IF e.done + 1 = e.size THEN NoTarget ELSE @,
                          !.unmatched = r.unmatched,
                          !.clustered = IF r.clustered # <<>>
                                        THEN Append(@, r.clustered) ELSE @]]

\* The load task of file o ends and its callback _file_loaded runs, bound to
\* the target and unmatched_files of o's batch.  A file removed while it was
\* loading completes with remove_file=True; else the load failed (error) or
\* set the file's metadata.
FileLoaded(o, error, albumid, recordingid, can_analyze) ==
    /\ loading[o] > 0
    /\ loading' = [loading EXCEPT ![o] = @ - 1]
    /\ LET b == fobj[o].batch
           remove_file == fobj[o].state = "removed"
           g0 == IF remove_file THEN Graph
                 ELSE [Graph EXCEPT !.fobj[o].state = IF error THEN "error" ELSE "normal"]
           md == [albumid |-> albumid, recordingid |-> recordingid,
                  can_analyze |-> can_analyze]
           cnt == pending_after_load(pending_files_count)
           r == file_loaded_body(g0, cnt, o, batches[b].target, remove_file,
                                 batches[b].unmatched, md, config)
       IN /\ remove_file => ~error /\ albumid = 0 /\ recordingid = 0 /\ ~can_analyze
          /\ error => (albumid = recordingid /\ albumid >= 0 /\ can_analyze = (albumid = 1))
          /\ pending_files_count' = cnt
          /\ window' = IF cnt = 0 THEN [window EXCEPT !.exit = @ + 1] ELSE window
          /\ SetGraph(r.g)
          /\ batches' = LogCompletion(batches, b, cnt, r)
          /\ last' = [op |-> "file_loaded", file |-> o, md |-> md,
                      target |-> batches[b].target, via |-> r.via]
    /\ UNCHANGED <<addStack, config>>
    /\ UNCHANGED <<cmdvars, exitvars>>

\* ------------------------------------------------------------------ clustering
\* Variant of load_cluster that never looks for an existing cluster.
load_cluster_always_new(g, key) == [g EXCEPT !.clusters = Append(@, key)]

\* Tagger.load_cluster(name, artist): the cluster with this (title, artist) is
\* the first of self.clusters that has it, else a new one appended to the list.
load_cluster(g, key) ==
    IF \E i \in 1..Len(g.clusters) : g.clusters[i] = key THEN g
    ELSE [g EXCEPT !.clusters = Append(@, key)]

RECURSIVE AttachAll(_, _, _)
AttachAll(g, c, fs) ==
    IF fs = {} THEN g
    ELSE LET o == CHOOSE x \in fs : TRUE
         IN AttachAll(Attach(g, c, o), c, fs \ {o})

\* Tagger._clustering_finished(callback, result, error) over result[i..]
RECURSIVE clustering_finished(_, _, _)
clustering_finished(g, result, i) ==
    IF i > Len(result) THEN g
    ELSE LET fs == result[i].files
             g1 == IF Cardinality(fs) > 1 THEN load_cluster(g, result[i].key) ELSE g
             cl == IF Cardinality(fs) > 1 THEN ClusterC(result[i].key) ELSE UNCLUSTERED
         IN clustering_finished(AttachAll(g1, cl, fs), result, i + 1)

\* Variant of clustering_finished_callback that calls the callback after an
\* error too.
clustering_finished_callback_always(callback, error) == callback

\* Tagger._clustering_finished: whether the caller's callback is called, from
\* whether cluster() was given one and whether the task ended with an error.
clustering_finished_callback(callback, error) == callback /\ ~error

\* The groups Cluster.cluster(files) may return: the files partitioned by grp,
\* group n carrying the key keyOf[n].
ClusterResult(task, grp, keyOf) ==
    LET used == {n \in 1..Len(task) : \E i \in 1..Len(task) : grp[i] = n}
        F[n \in 0..Len(task)] ==
            IF n = 0 THEN <<>>
            ELSE IF n \in used
                 THEN Append(F[n - 1], [key |-> keyOf[n],
                                        files |-> {task[i] : i \in {j \in 1..Len(task) : grp[j] = n}}])
                 ELSE F[n - 1]
    IN F[Len(task)]

\* Variant of do_clustering in which the task registers a cluster for its
\* files itself, as _clustering_finished does for a group.
do_clustering_loads_cluster(g, task) ==
    load_cluster_always_new(g, CHOOSE k \in ClusterKeys : TRUE)

\* Tagger._do_clustering(files), in a thread of the general pool: the graph
\* after it.  The algorithm reads the files' metadata and returns the groups.
do_clustering(g, task) == g

\* The clustering task runs _do_clustering in its worker thread.
DoClustering(task) ==
    /\ task \in clusterTasks
    /\ SetGraph(do_clustering(Graph, task))
    /\ last' = [op |-> "do_clustering", task |-> task]
    /\ UNCHANGED <<pending_files_count, loading, batches, addStack, window, config>>
    /\ UNCHANGED <<cmdvars, exitvars>>

\* A clustering task ends and _clustering_finished runs with its result or error.
ClusteringFinished(task, error, grp, keyOf) ==
    /\ task \in clusterTasks
    /\ error => \A i \in 1..Len(task) : grp[i] = 1 /\ keyOf[i] = 1
    /\ LET g0 == [Graph EXCEPT !.clusterTasks = @ \ {task}]
           result == IF error THEN <<>> ELSE ClusterResult(task, grp, keyOf)
       IN /\ SetGraph(IF error THEN g0 ELSE clustering_finished(g0, result, 1))
          /\ last' = [op |-> "clustering_finished", task |-> task, error |-> error,
                      result |-> result, held |-> {c[2] : c \in cfiles},
                      clusters |-> clusters, files |-> files,
                      callback_called |->
                         [callback \in BOOLEAN |->
                             clustering_finished_callback(callback, error)]]
    /\ UNCHANGED <<pending_files_count, loading, batches, addStack, window, config>>
    /\ UNCHANGED <<cmdvars, exitvars>>

\* ------------------------------------------------------------------ removal
RECURSIVE SetToSeq(_)
SetToSeq(S) ==
    IF S = {} THEN <<>>
    ELSE LET m == CHOOSE x \in S : \A y \in S : x <= y
         IN <<m>> \o SetToSeq(S \ {m})

\* list(container.files)
FilesOf(g, c) == {o \in DOMAIN g.fobj : <<c, o>> \in g.cfiles}

\* list(album.iterfiles()): the files of the album's tracks and its unmatched files
AlbumFiles(g, a) == {o \in Objs : \E c \in g.cfiles :
                        c[2] = o /\ c[1][1] \in {"album_unmatched", "track"} /\ c[1][2] = a}

\* Tagger.remove_album(album)
remove_album(g, a) ==
    IF g.albums[a] = "absent" THEN g
    ELSE LET g1 == remove_files(g, SetToSeq(AlbumFiles(g, a)), TRUE)
             g2 == [g1 EXCEPT !.albums[a] = "absent"]
         IN IF a = NATS
            THEN [g2 EXCEPT !.nats = FALSE,
                            !.nat_tracks = [r \in DOMAIN @ |-> "absent"],
                            !.nat_waiting = {}]
            ELSE g2

\* Tagger.remove_nat(track)
remove_nat(g, r) ==
    LET g1 == remove_files(g, SetToSeq(FilesOf(g, TrackC(NATS, r))), TRUE)
    IN IF ~g1.nats THEN g1
       ELSE LET g2 == [g1 EXCEPT !.nat_tracks[r] = "absent",
                                 !.nat_waiting = {w \in @ : w[1] # r}]
            IN IF \A x \in DOMAIN g2.nat_tracks : g2.nat_tracks[x] = "absent"
               THEN remove_album(g2, NATS) ELSE g2

\* list.remove(x): the list without the first occurrence of x
RemoveFirst(s, x) ==
    LET i == CHOOSE j \in 1..Len(s) : s[j] = x /\ \A k \in 1..(j - 1) : s[k] # x
    IN [j \in 1..(Len(s) - 1) |-> IF j < i THEN s[j] ELSE s[j + 1]]

\* Tagger.remove_cluster(cluster)
remove_cluster(g, k) ==
    LET fs == FilesOf(g, ClusterC(k))
        g1 == [g EXCEPT !.cfiles = {c \in @ : c[1] # ClusterC(k)}]
        g2 == remove_files(g1, SetToSeq(fs), FALSE)
    IN [g2 EXCEPT !.clusters = RemoveFirst(@, k)]

UNCHANGED_intake ==
    /\ last' = NoCall
    /\ UNCHANGED <<pending_files_count, loading, batches, addStack, window, config>>
    /\ UNCHANGED <<cmdvars, exitvars>>

\* Tagger.remove_files([file]) called for a file the tagger has seen.
RemoveFiles(o) ==
    /\ fobj[o].state # "unused"
    /\ SetGraph(remove_files(Graph, <<o>>, TRUE))
    /\ last' = [op |-> "remove_files", file |-> o,
                was_key |-> files[fobj[o].filename] # NoObj,
                present |-> files[fobj[o].filename] = o,
                held |-> {c[1] : c \in {x \in cfiles : x[2] = o}},
                steps |-> remove_file_steps(Graph, o, TRUE),
                changed |-> remove_files(Graph, <<o>>, TRUE) # Graph]
    /\ UNCHANGED <<pending_files_count, loading, batches, addStack, window, config>>
    /\ UNCHANGED <<cmdvars, exitvars>>

RemoveCluster(k) ==
    /\ \E i \in 1..Len(clusters) : clusters[i] = k
    /\ SetGraph(remove_cluster(Graph, k))
    /\ UNCHANGED_intake

RemoveAlbum(a) ==
    /\ albums[a] # "absent"
    /\ SetGraph(remove_album(Graph, a))
    /\ UNCHANGED_intake

\* Tagger.remove_nat(track) for a track of the NATS album.
RemoveNat(r) ==
    /\ nat_tracks[r] # "absent"
    /\ SetGraph(remove_nat(Graph, r))
    /\ last' = [op |-> "remove_nat", track |-> r,
                tracks |-> {x \in DOMAIN nat_tracks : nat_tracks[x] # "absent"}]
    /\ UNCHANGED <<pending_files_count, loading, batches, addStack, window, config>>
    /\ UNCHANGED <<cmdvars, exitvars>>

\* ------------------------------------------------------------------ other completions
RECURSIVE MatchAll(_, _, _)
MatchAll(g, a, fs) ==
    IF fs = {} THEN g
    ELSE LET o == CHOOSE x \in fs : TRUE
         IN MatchAll(Album_match_files(g, a, o), a, fs \ {o})

\* Album a finishes loading: its waiting files are matched to its tracks.
AlbumLoaded(a) ==
    /\ albums[a] = "loading"
    /\ LET g1 == [Graph EXCEPT !.albums[a] = "loaded"]
       IN SetGraph(MatchAll(g1, a, FilesOf(g1, AlbumUnmatched(a))))
    /\ UNCHANGED_intake

RECURSIVE MoveAll(_, _, _)
MoveAll(g, c, fs) ==
    IF fs = {} THEN g
    ELSE LET o == CHOOSE x \in fs : TRUE
         IN MoveAll(File_move(g, o, c), c, fs \ {o})

\* Non-album track r finishes loading: its run_when_loaded callbacks run.
NatLoaded(r) ==
    /\ nat_tracks[r] = "loading"
    /\ LET g1 == [Graph EXCEPT !.nat_tracks[r] = "loaded",
                               !.nat_waiting = {w \in @ : w[1] # r}]
       IN SetGraph(MoveAll(g1, TrackC(NATS, r), {w[2] : w \in {x \in nat_waiting : x[1] = r}}))
    /\ UNCHANGED_intake

\* The fingerprint client is done with file o (no match found).
AnalyzeFinished(o) ==
    /\ o \in analyzing
    /\ SetGraph([Graph EXCEPT !.analyzing = @ \ {o}])
    /\ UNCHANGED_intake

\* ------------------------------------------------------------------ remote commands
\* Bounds: commands enqueued in all, commands in one load_to_picard call and
\* tasks unrelated to any command alive at a time.
MaxCmds == 2
MaxItems == 1
MaxUnrelated == 1
\* Signals delivered, and calls of sighandler.
MaxSignals == 1
MaxSigCalls == 2

\* Verbs: two keys of self.commands and one string that is no key.
Verbs == {"LOAD", "QUIT", "NOPE"}

\* self.commands = RemoteCommands.commands()
commands == {"LOAD", "QUIT"}

\* A command (cmd, arg); id is its position in the order of enqueueing.
NoCmd == [id |-> 0, verb |-> "none"]

\* The threads that call load_to_picard: the pipe server and the control thread.
Callers == {"pipe", "main"}

\* The threads run_commands can run in at a time: one per caller of
\* start_process_commands that read the flag as false.
ConsumerIds == {1, 2}

\* What the barrier looks at, in the order of the test: the three pools, the
\* web service and the fingerprint client.
Resources == <<"priority", "general", "save", "web", "acoustid">>

\* original_*_thread_count before they are read
NoSnapshot == [taken |-> FALSE, priority |-> 0, general |-> 0, save |-> 0]

\* A thread slot with no run_commands in it.  set_running: the thread called
\* set_running(True) for cmd; busy_at_done: some operand of the barrier test
\* was true when the thread reported cmd complete.
NoConsumer == [pc |-> "none", cmd |-> NoCmd, snap |-> NoSnapshot, set_running |-> FALSE,
               busy_at_done |-> FALSE]

\* pool.activeThreadCount(), webservice.num_pending_web_requests,
\* acoustid._running (as a count) over the work w
active_count(w, res) == Cardinality({x \in w : x[1] = res})

\* The three activeThreadCount() reads before the dispatch.
snapshot(w) == [taken |-> TRUE, priority |-> active_count(w, "priority"),
                general |-> active_count(w, "general"), save |-> active_count(w, "save")]

\* Variant of barrier_busy for which the wait always goes on.
barrier_busy_always(k, snap, w) == TRUE

\* The k-th operand of the barrier test: true means the wait goes on.
barrier_busy(k, snap, w) ==
    CASE k = 1 -> active_count(w, "priority") > snap.priority
      [] k = 2 -> active_count(w, "general") > snap.general
      [] k = 3 -> active_count(w, "save") > snap.save
      [] k = 4 -> active_count(w, "web") > 0
      [] k = 5 -> active_count(w, "acoustid") > 0

\* Variant of dispatch_kind that dispatches QUIT like every other command.
dispatch_kind_quit_blocking(cmd) ==
    IF cmd \in commands THEN "blocking" ELSE "unknown"

\* Variant of dispatch_kind without the lookup in the command table.
dispatch_kind_unregistered(cmd) ==
    IF cmd = "QUIT" THEN "quit" ELSE "blocking"

\* How run_commands treats a dequeued verb.
dispatch_kind(cmd) ==
    IF cmd \in commands
    THEN IF cmd = "QUIT" THEN "quit" ELSE "blocking"
    ELSE "unknown"

\* Variant of task_done_after that acknowledges only the commands of the table.
task_done_known_only(acked, cmd) ==
    IF cmd.verb \in commands THEN Append(acked, cmd.id) ELSE acked

\* RemoteCommands.command_queue.task_done() after the command was handled
task_done_after(acked, cmd) == Append(acked, cmd.id)

\* The command state outside `changed` and the intake state stay as they are.
UNCHANGED_cmdrest(changed) ==
    /\ IF "command_queue" \in changed THEN TRUE ELSE UNCHANGED command_queue
    /\ IF "cmd_running" \in changed THEN TRUE ELSE UNCHANGED cmd_running
    /\ IF "command_thread_running" \in changed THEN TRUE ELSE UNCHANGED command_thread_running
    /\ IF "stopping" \in changed THEN TRUE ELSE UNCHANGED stopping
    /\ IF "callers" \in changed THEN TRUE ELSE UNCHANGED callers
    /\ IF "consumers" \in changed THEN TRUE ELSE UNCHANGED consumers
    /\ IF "mainq" \in changed THEN TRUE ELSE UNCHANGED mainq
    /\ IF "work" \in changed THEN TRUE ELSE UNCHANGED work
    /\ IF "cmdlog" \in changed THEN TRUE ELSE UNCHANGED cmdlog
    /\ IF "cleaned" \in changed THEN TRUE ELSE UNCHANGED cleaned
    /\ IF "exit_state" \in changed THEN TRUE ELSE UNCHANGED exit_state
    /\ IF "app" \in changed THEN TRUE ELSE UNCHANGED app
    /\ IF "signalfd" \in changed THEN TRUE ELSE UNCHANGED signalfd
    /\ IF "signalnotifier" \in changed THEN TRUE ELSE UNCHANGED signalnotifier
    /\ IF "pipe_running" \in changed THEN TRUE ELSE UNCHANGED pipe_running
    /\ IF "sighandled" \in changed THEN TRUE ELSE UNCHANGED sighandled
    /\ UNCHANGED exit_cleanup
    /\ UNCHANGED intakevars

\* QThread.idealThreadCount() of the machines considered.
IdealThreadCounts == 1..4

\* thread_pool.setMaxThreadCount(max(3, QtCore.QThread.idealThreadCount()))
general_max_threads(ideal) == IF ideal > 3 THEN ideal ELSE 3

\* The control thread is inside load_to_picard.
MainInLoad == callers["main"] \in {"start", "set"}

\* The control thread takes the next event: the event loop runs, or exit() is
\* in its processEvents() call.
MainFree ==
    /\ ~MainInLoad
    /\ \/ exit_state.pc = "events"
       \/ exit_state.pc = "idle" /\ app = "exec"

\* The threads that run run_commands.
ConsumersAlive == {i \in ConsumerIds : consumers[i].pc # "none"}

\* Where a caller is after start_process_commands: the pipe server reads the
\* next message, _run_init is over.
AfterStart(t) == IF t = "pipe" THEN "idle" ELSE "finished"

\* The control thread is not inside exit().
NotInExit == [pc |-> "idle", next |-> 0, caller |-> "none"]

\* Tagger.register_cleanup(func)
register_cleanup(cleanup, func) == Append(cleanup, func)

\* Tagger.run_cleanup: the order in which the functions are called,
\* reversed(self.exit_cleanup).
run_cleanup(cleanup) == [n \in 1..Len(cleanup) |-> cleanup[Len(cleanup) + 1 - n]]

\* The waitForDone cleanup functions and the pool each drains.
Drains == [f \in {"thread_pool.waitForDone", "priority_thread_pool.waitForDone",
                   "save_thread_pool.waitForDone"} |->
              CASE f = "thread_pool.waitForDone" -> "general"
                [] f = "priority_thread_pool.waitForDone" -> "priority"
                [] f = "save_thread_pool.waitForDone" -> "save"]

\* pool.waitForDone() returns: no task of the pool is queued or running.  The
\* pipe server and the command consumers are tasks of the general pool.
\* File loads and clustering tasks end on their own; their callbacks stay
\* posted to the control thread.
drained(pool) ==
    /\ active_count(work, pool) = 0
    /\ pool = "general" => ConsumersAlive = {} /\ callers["pipe"] = "ended"

\* A waitForDone was called during this shutdown and has returned.
DrainInvoked == \E n \in 1..Len(cleaned) : cleaned[n] \in DOMAIN Drains

\* Variant of exit_returns_at_once that ignores the stopping flag.
exit_returns_at_once_never(is_stopping) == FALSE

\* Tagger.exit: `if self.stopping: return`
exit_returns_at_once(is_stopping) == is_stopping

\* Tagger.quit(), up to the first cleanup function: exit() returns at once
\* when the tagger is stopping already, and QCoreApplication.quit() follows;
\* else the cleanup starts (sighandler has disabled the notifier before).
Quit(caller) ==
    IF exit_returns_at_once(stopping)
    THEN /\ app' = IF app = "exec" THEN "quit" ELSE app
         /\ UNCHANGED <<stopping, exit_state, signalnotifier>>
    ELSE /\ stopping' = TRUE
         /\ exit_state' = [pc |-> "cleanup", next |-> 1, caller |-> caller]
         /\ signalnotifier' = IF caller = "sighandler" THEN FALSE ELSE signalnotifier
         /\ UNCHANGED app

\* load_to_picard(items) up to the call of start_process_commands: the items
\* are put into the queue in order.
LoadToPicard(t, verbs) ==
    /\ callers[t] = "idle"
    /\ IF t = "pipe" THEN pipe_running ELSE MainFree /\ ~stopping
    /\ cmdlog.enqueued + Len(verbs) <= MaxCmds
    /\ command_queue' = command_queue \o
          [i \in 1..Len(verbs) |-> [id |-> cmdlog.enqueued + i, verb |-> verbs[i]]]
    /\ cmdlog' = [cmdlog EXCEPT !.enqueued = @ + Len(verbs), !.verbs = @ \o verbs]
    /\ callers' = [callers EXCEPT ![t] = "start"]
    /\ UNCHANGED_cmdrest({"command_queue", "cmdlog", "callers"})

\* start_process_commands: the test of _command_thread_running
StartProcessCommandsTest(t) ==
    /\ callers[t] = "start"
    /\ callers' = [callers EXCEPT ![t] = IF command_thread_running
                                          THEN AfterStart(t) ELSE "set"]
    /\ UNCHANGED_cmdrest({"callers"})

\* start_process_commands: the flag is set and run_commands starts in a thread
StartProcessCommandsRun(t) ==
    /\ callers[t] = "set"
    /\ \E i \in ConsumerIds :
          /\ consumers[i].pc = "none"
          /\ \A j \in ConsumerIds : j < i => consumers[j].pc # "none"
          /\ consumers' = [consumers EXCEPT ![i] = [NoConsumer EXCEPT !.pc = "loop"]]
    /\ command_thread_running' = TRUE
    /\ callers' = [callers EXCEPT ![t] = AfterStart(t)]
    /\ UNCHANGED_cmdrest({"consumers", "command_thread_running", "callers"})

\* run_commands, top of the loop: `while not self.stopping` and the two tests
\* of the queue and the running flag.  A pass that only sleeps (queue not
\* empty, a command running) changes nothing and is no step.
ConsumerTest(i) ==
    /\ consumers[i].pc = "loop"
    /\ stopping \/ command_queue = <<>> \/ ~cmd_running
    /\ consumers' = [consumers EXCEPT ![i] =
          IF stopping THEN NoConsumer
          ELSE IF command_queue # <<>> /\ ~cmd_running THEN [@ EXCEPT !.pc = "get"]
          ELSE IF command_queue = <<>> THEN [@ EXCEPT !.pc = "stop"]
          ELSE @]
    /\ UNCHANGED_cmdrest({"consumers"})

\* run_commands: the queue was seen empty; the flag is cleared and the thread ends
ConsumerStop(i) ==
    /\ consumers[i].pc = "stop"
    /\ consumers' = [consumers EXCEPT ![i] = NoConsumer]
    /\ command_thread_running' = FALSE
    /\ UNCHANGED_cmdrest({"consumers", "command_thread_running"})

\* run_commands: command_queue.get() (which blocks on an empty queue) and the
\* dispatch of the command.
ConsumerGet(i) ==
    /\ consumers[i].pc = "get"
    /\ command_queue # <<>>
    /\ LET cmd == Head(command_queue)
           kind == dispatch_kind(cmd.verb)
       IN /\ command_queue' = Tail(command_queue)
          /\ consumers' = [consumers EXCEPT ![i] =
                IF kind = "blocking"
                THEN [pc |-> "wait", cmd |-> cmd, snap |-> snapshot(work),
                      set_running |-> TRUE, busy_at_done |-> FALSE]
                ELSE [pc |-> "ack", cmd |-> cmd, snap |-> NoSnapshot,
                      set_running |-> FALSE, busy_at_done |-> FALSE]]
          /\ cmd_running' = IF kind = "blocking" THEN TRUE ELSE cmd_running
          /\ mainq' = IF kind = "unknown" THEN mainq
                      ELSE Append(mainq, [cmd |-> cmd, consumer |-> IF kind = "blocking" THEN i ELSE 0])
          /\ cmdlog' = [cmdlog EXCEPT !.dequeued = Append(@, cmd.id),
                                      !.dispatched = IF kind = "unknown" THEN @
                                                     ELSE Append(@, cmd.id)]
    /\ UNCHANGED_cmdrest({"command_queue", "consumers", "cmd_running", "mainq", "cmdlog"})

\* Tagger.event: the control thread runs the next posted handler.  The handler
\* of QUIT stops the tagger; any other handler starts some work (at most one
\* task, request or job here) and returns, which ends the wait of
\* to_main_with_blocking.
RunHandler(started) ==
    /\ mainq # <<>>
    /\ MainFree
    /\ LET e == Head(mainq)
       IN /\ mainq' = Tail(mainq)
          /\ IF e.cmd.verb = "QUIT"
             THEN /\ started = {}
                  /\ Quit("command")
                  /\ UNCHANGED <<work, consumers>>
             ELSE /\ work' = work \cup {<<r, e.cmd.id>> : r \in started}
                  /\ consumers' = IF e.consumer = 0 THEN consumers
                                  ELSE [consumers EXCEPT ![e.consumer].pc = "b1"]
                  /\ UNCHANGED <<stopping, exit_state, signalnotifier, app>>
    /\ UNCHANGED_cmdrest({"mainq", "stopping", "work", "consumers", "exit_state",
                          "signalnotifier", "app"})

\* The position after "bk".
NextRead(k) == <<"b2", "b3", "b4", "b5", "done">>[k]

\* run_commands, barrier wait: one operand of the test is read; a busy one
\* sends the thread back to sleep and to the first operand.
ConsumerBarrierRead(i, k) ==
    /\ consumers[i].pc = <<"b1", "b2", "b3", "b4", "b5">>[k]
    /\ ~(k = 1 /\ barrier_busy(k, consumers[i].snap, work))
    /\ consumers' = [consumers EXCEPT ![i].pc =
          IF barrier_busy(k, consumers[i].snap, work) THEN "b1" ELSE NextRead(k)]
    /\ UNCHANGED_cmdrest({"consumers"})

\* run_commands: "Completed command" and set_running(False)
ConsumerCompleted(i) ==
    /\ consumers[i].pc = "done"
    /\ consumers' = [consumers EXCEPT ![i].pc = "ack",
                                      ![i].busy_at_done =
                                          \E k \in 1..Len(Resources) :
                                             barrier_busy(k, consumers[i].snap, work)]
    /\ cmd_running' = FALSE
    /\ cmdlog' = [cmdlog EXCEPT !.completed = Append(@, consumers[i].cmd.id)]
    /\ UNCHANGED_cmdrest({"consumers", "cmd_running", "cmdlog"})

\* run_commands: command_queue.task_done() and the sleep at the end of the loop
ConsumerTaskDone(i) ==
    /\ consumers[i].pc = "ack"
    /\ consumers' = [consumers EXCEPT ![i] = [NoConsumer EXCEPT !.pc = "loop"]]
    /\ cmdlog' = [cmdlog EXCEPT !.acked = task_done_after(@, consumers[i].cmd)]
    /\ UNCHANGED_cmdrest({"consumers", "cmdlog"})

\* A task no command asked for starts in the general pool (the user acts in
\* the window); its origin is -n, n the lowest number free.
UnrelatedStart(r) ==
    /\ ~stopping
    /\ ~MainInLoad
    /\ \E n \in 1..MaxUnrelated :
          /\ \A x \in work : x[2] # -n
          /\ \A m \in 1..(n - 1) : \E x \in work : x[2] = -m
          /\ work' = work \cup {<<r, -n>>}
    /\ UNCHANGED_cmdrest({"work"})

\* A task, request or job ends.
WorkFinished(x) ==
    /\ x \in work
    /\ work' = work \ {x}
    /\ UNCHANGED_cmdrest({"work"})

\* pipe_server: the loop ends when pipe_running is false.
PipeServerEnd ==
    /\ callers["pipe"] = "idle"
    /\ ~pipe_running
    /\ callers' = [callers EXCEPT !["pipe"] = "ended"]
    /\ UNCHANGED_cmdrest({"callers"})

\* ------------------------------------------------------------------ shutdown
\* Tagger.exit, run_cleanup: the next cleanup function is called and returns.
\* A waitForDone blocks the control thread until its pool is drained.
ExitCleanup ==
    /\ exit_state.pc = "cleanup"
    /\ LET f == run_cleanup(exit_cleanup)[exit_state.next]
       IN /\ f \in DOMAIN Drains => drained(Drains[f])
          /\ cleaned' = Append(cleaned, f)
          /\ pipe_running' = IF f = "pipe_handler.stop" THEN FALSE ELSE pipe_running
          /\ exit_state' = IF exit_state.next = Len(exit_cleanup)
                           THEN [exit_state EXCEPT !.pc = "events"]
                           ELSE [exit_state EXCEPT !.next = @ + 1]
    /\ UNCHANGED_cmdrest({"cleaned", "pipe_running", "exit_state"})

\* Tagger.exit: processEvents() has run the posted events and exit returns to
\* its caller: quit() calls QCoreApplication.quit(), sighandler enables the
\* notifier again, run() returns.
ExitReturn ==
    /\ exit_state.pc = "events"
    /\ mainq = <<>>
    /\ ~MainInLoad
    /\ \A o \in DOMAIN loading : loading[o] = 0
    /\ app' = IF exit_state.caller = "run" THEN "ended"
              ELSE IF app = "exec" THEN "quit" ELSE app
    /\ signalnotifier' = IF exit_state.caller = "sighandler" THEN TRUE ELSE signalnotifier
    /\ exit_state' = NotInExit
    /\ UNCHANGED_cmdrest({"app", "signalnotifier", "exit_state"})

\* Tagger.run: exec() has returned and exit() is called.
RunReturns ==
    /\ app = "quit"
    /\ exit_state.pc = "idle"
    /\ ~MainInLoad
    /\ IF exit_returns_at_once(stopping)
       THEN /\ app' = "ended"
            /\ UNCHANGED <<stopping, exit_state>>
       ELSE /\ stopping' = TRUE
            /\ exit_state' = [pc |-> "cleanup", next |-> 1, caller |-> "run"]
            /\ UNCHANGED app
    /\ UNCHANGED_cmdrest({"app", "stopping", "exit_state"})

\* The last window is closed: exec() is told to return, quit() was not called.
WindowClosed ==
    /\ app = "exec"
    /\ exit_state.pc = "idle"
    /\ ~MainInLoad
    /\ app' = "quit"
    /\ UNCHANGED_cmdrest({"app"})

\* Tagger.signal(signum, frame), in the signal handler: one byte is sent.
Signal ==
    /\ app # "ended"
    /\ signalfd < MaxSignals
    /\ signalfd' = signalfd + 1
    /\ UNCHANGED_cmdrest({"signalfd"})

\* Tagger.sighandler, called by the notifier while signalfd[1] is readable:
\* the notifier is disabled, quit() is called, the notifier is enabled.
\* Nothing is read from signalfd[1].
SigHandler ==
    /\ MainFree
    /\ signalnotifier
    /\ signalfd > 0
    /\ sighandled < MaxSigCalls
    /\ sighandled' = sighandled + 1
    /\ Quit("sighandler")
    /\ UNCHANGED_cmdrest({"sighandled", "stopping", "exit_state", "signalnotifier", "app"})

\* Tagger.__init__: the cleanup functions in the order of registration
\* (_init_threads, _init_pipe_server, _init_webservice, _init_fingerprinting,
\* _init_browser_integration); the event loop runs, no signal was delivered.
ExitInit ==
    /\ LET threads == register_cleanup(register_cleanup(register_cleanup(<<>>,
                          "thread_pool.waitForDone"), "priority_thread_pool.waitForDone"),
                          "save_thread_pool.waitForDone")
           pipe_server == register_cleanup(threads, "pipe_handler.stop")
           webservice == register_cleanup(pipe_server, "webservice.stop")
           fingerprinting == register_cleanup(webservice, "acoustid.done")
       IN exit_cleanup = register_cleanup(fingerprinting, "browser_integration.stop")
    /\ cleaned = <<>>
    /\ exit_state = NotInExit
    /\ app = "exec"
    /\ signalfd = 0
    /\ signalnotifier = TRUE
    /\ pipe_running = TRUE
    /\ sighandled = 0

\* Tagger.__init__: no command, no consumer, nothing running.
CmdInit ==
    /\ command_queue = <<>>
    /\ cmd_running = FALSE
    /\ command_thread_running = FALSE
    /\ stopping = FALSE
    /\ callers = [t \in Callers |-> "idle"]
    /\ consumers = [i \in ConsumerIds |-> NoConsumer]
    /\ mainq = <<>>
    /\ work = {}
    /\ cmdlog = [enqueued |-> 0, verbs |-> <<>>, dequeued |-> <<>>, dispatched |-> <<>>,
                 completed |-> <<>>, acked |-> <<>>]

\* ------------------------------------------------------------------ specification
Settings == [ignore_file_mbids : BOOLEAN, analyze_new_files : BOOLEAN,
             cluster_new_files : BOOLEAN, ignore_hidden_files : BOOLEAN,
             ignore_regex : IgnorePatterns, use_acoustid : BOOLEAN]

\* Tagger._init_tagger_entities
InitState ==
    /\ pending_files_count = 0
    /\ files = [fn \in FileNames |-> NoObj]
    /\ fobj = [o \in Objs |-> [filename |-> 0, state |-> "unused", batch |-> 0,
                               match_recordingid |-> 0]]
    /\ parent_item = [o \in Objs |-> NoParent]
    /\ cfiles = {}
    /\ clusters = <<>>
    /\ albums = [a \in {NATS} \cup Mbids |-> "absent"]
    /\ nats = FALSE
    /\ nat_tracks = [r \in Mbids |-> "absent"]
    /\ nat_waiting = {}
    /\ analyzing = {}
    /\ loading = [o \in Objs |-> 0]
    /\ batches = <<>>
    /\ addStack = <<>>
    /\ clusterTasks = {}
    /\ window = [enter |-> 0, exit |-> 0]
    /\ last = NoCall
    /\ CmdInit
    /\ ExitInit

\* Group numbers are used in order of first appearance.
Groupings(n) == {grp \in [1..n -> 1..n] :
                    \A i \in 1..n : grp[i] <= 1 + Cardinality({grp[j] : j \in 1..(i - 1)})}

\* ---- Spec: intake, placement, clustering and removal.  No path is filtered
\* (no hidden-file filter, no ignore pattern), every file opens; the settings
\* that steer _file_loaded take every value.
Init ==
    /\ InitState
    /\ config \in {c \in Settings : /\ ~c.ignore_hidden_files
                                    /\ c.ignore_regex = ""
                                    /\ c.use_acoustid = c.analyze_new_files}

\* The filenames arguments of add_files: up to MaxPaths of two plain names.
PathLists == UNION {[1..n -> {MaxFiles - 1, MaxFiles}] : n \in 1..MaxPaths}

Next ==
    \/ \E paths \in PathLists, target \in Targets :
          AddFiles(paths, target, [i \in 1..Len(paths) |-> TRUE])
    \/ AddFilesContinue
    \/ \E o \in Objs, error \in BOOLEAN, albumid \in MbidValues,
          recordingid \in MbidValues, can_analyze \in BOOLEAN :
          FileLoaded(o, error, albumid, recordingid, can_analyze)
    \/ \E task \in clusterTasks, error \in BOOLEAN :
          \E grp \in Groupings(Len(task)), keyOf \in [1..Len(task) -> ClusterKeys] :
             ClusteringFinished(task, error, grp, keyOf)
    \/ \E o \in Objs : RemoveFiles(o)
    \/ \E k \in ClusterKeys : RemoveCluster(k)
    \/ \E a \in {NATS} \cup Mbids : RemoveAlbum(a)
    \/ \E r \in Mbids : RemoveNat(r)
    \/ \E a \in Mbids : AlbumLoaded(a)
    \/ \E r \in Mbids : NatLoaded(r)
    \/ \E o \in Objs : AnalyzeFinished(o)

Spec == Init /\ [][Next]_vars

\* ---- SpecAdd: the path filters and the dedup of add_files.  Every raw path,
\* every filter setting, open_file failing or not; the loaded files carry no
\* MBIDs and are placed by move_file.
InitAdd ==
    /\ InitState
    /\ config \in {c \in Settings : /\ c.ignore_file_mbids
                                    /\ ~c.analyze_new_files
                                    /\ ~c.use_acoustid
                                    /\ ~c.cluster_new_files}

PathListsAdd == UNION {[1..n -> RawPaths] : n \in 1..MaxPaths}

NextAdd ==
    \/ \E paths \in PathListsAdd :
          \E openOK \in [1..Len(paths) -> BOOLEAN] : AddFiles(paths, NoTarget, openOK)
    \/ AddFilesContinue
    \/ \E o \in Objs, error \in BOOLEAN : FileLoaded(o, error, 0, 0, FALSE)
    \/ \E o \in Objs : RemoveFiles(o)

SpecAdd == InitAdd /\ [][NextAdd]_vars

\* ---- SpecCmd: the remote command queue, its consumer threads and the work
\* the barrier waits for; no file is added.
InitCmd ==
    /\ InitState
    /\ config = [ignore_file_mbids |-> FALSE, analyze_new_files |-> FALSE,
                 cluster_new_files |-> FALSE, ignore_hidden_files |-> FALSE,
                 ignore_regex |-> "", use_acoustid |-> FALSE]

\* The items of one load_to_picard call.
ItemLists == UNION {[1..n -> Verbs] : n \in 1..MaxItems}

\* What a handler starts: nothing or one piece of work.
StartChoices == {{}} \cup {{Resources[k]} : k \in 1..Len(Resources)}

NextCmd ==
    \/ \E t \in Callers, verbs \in ItemLists : LoadToPicard(t, verbs)
    \/ \E t \in Callers : StartProcessCommandsTest(t)
    \/ \E t \in Callers : StartProcessCommandsRun(t)
    \/ \E i \in ConsumerIds : ConsumerTest(i)
    \/ \E i \in ConsumerIds : ConsumerStop(i)
    \/ \E i \in ConsumerIds : ConsumerGet(i)
    \/ \E started \in StartChoices : RunHandler(started)
    \/ \E i \in ConsumerIds, k \in 1..Len(Resources) : ConsumerBarrierRead(i, k)
    \/ \E i \in ConsumerIds : ConsumerCompleted(i)
    \/ \E i \in ConsumerIds : ConsumerTaskDone(i)
    \/ UnrelatedStart("general")
    \/ \E x \in work : WorkFinished(x)
    \/ PipeServerEnd
    \/ ExitCleanup
    \/ ExitReturn
    \/ RunReturns

SpecCmd == InitCmd /\ [][NextCmd]_vars

\* SpecCmd with fair scheduling of the consumer threads: a consumer that can
\* take its next step takes it in the end.  Nothing is assumed of the callers,
\* the control thread or the work.
FairnessCmd ==
    \A i \in ConsumerIds :
       /\ WF_vars(ConsumerTest(i))
       /\ WF_vars(ConsumerStop(i))
       /\ WF_vars(ConsumerGet(i))
       /\ WF_vars(\E k \in 1..Len(Resources) : ConsumerBarrierRead(i, k))
       /\ WF_vars(ConsumerCompleted(i))
       /\ WF_vars(ConsumerTaskDone(i))

SpecCmdFair == SpecCmd /\ FairnessCmd

\* ---- SpecExit: the shutdown.  One file is added and auto-clustered, the pipe
\* server enqueues LOAD and QUIT commands, signals arrive, the window is
\* closed; quit() and exit() are called by the QUIT handler, by sighandler
\* and by run().
InitExit ==
    /\ InitState
    /\ config = [ignore_file_mbids |-> TRUE, analyze_new_files |-> FALSE,
                 cluster_new_files |-> TRUE, ignore_hidden_files |-> FALSE,
                 ignore_regex |-> "", use_acoustid |-> FALSE]

NextExit ==
    \/ MainFree /\ ~stopping /\ AddFiles(<<MaxFiles>>, NoTarget, <<TRUE>>)
    \/ MainFree /\ \E o \in Objs : FileLoaded(o, FALSE, 0, 0, FALSE)
    \/ MainFree /\ \E task \in clusterTasks :
          \E grp \in Groupings(Len(task)), keyOf \in [1..Len(task) -> ClusterKeys] :
             ClusteringFinished(task, FALSE, grp, keyOf)
    \/ \E task \in clusterTasks : DoClustering(task)
    \/ \E verb \in commands : LoadToPicard("pipe", <<verb>>)
    \/ StartProcessCommandsTest("pipe")
    \/ StartProcessCommandsRun("pipe")
    \/ \E i \in ConsumerIds : ConsumerTest(i)
    \/ \E i \in ConsumerIds : ConsumerStop(i)
    \/ \E i \in ConsumerIds : ConsumerGet(i)
    \/ \E started \in {{}, {"general"}} : RunHandler(started)
    \/ \E i \in ConsumerIds, k \in 1..Len(Resources) : ConsumerBarrierRead(i, k)
    \/ \E i \in ConsumerIds : ConsumerCompleted(i)
    \/ \E i \in ConsumerIds : ConsumerTaskDone(i)
    \/ \E x \in work : WorkFinished(x)
    \/ PipeServerEnd
    \/ ExitCleanup
    \/ ExitReturn
    \/ RunReturns
    \/ WindowClosed
    \/ Signal
    \/ SigHandler

SpecExit == InitExit /\ [][NextExit]_vars

\* SpecExit with the scheduling the code relies on: every thread that can take
\* a step takes one in the end (the consumer, the pipe server, the control
\* thread running posted events and the cleanup), and every piece of work
\* ends.  Commands, files, signals and the closing of the window come when
\* they come.
FairnessExit ==
    /\ WF_vars(StartProcessCommandsTest("pipe"))
    /\ WF_vars(StartProcessCommandsRun("pipe"))
    /\ \A i \in ConsumerIds :
          /\ WF_vars(ConsumerTest(i))
          /\ WF_vars(ConsumerStop(i))
          /\ WF_vars(ConsumerGet(i))
          /\ WF_vars(\E k \in 1..Len(Resources) : ConsumerBarrierRead(i, k))
          /\ WF_vars(ConsumerCompleted(i))
          /\ WF_vars(ConsumerTaskDone(i))
    /\ WF_vars(\E started \in {{}, {"general"}} : RunHandler(started))
    /\ WF_vars(\E x \in work : WorkFinished(x))
    /\ WF_vars(PipeServerEnd)
    /\ WF_vars(ExitCleanup)
    /\ WF_vars(ExitReturn)
    /\ WF_vars(RunReturns)

SpecExitFair == SpecExit /\ FairnessExit

\* ---- SpecNat: the NATS album and its non-album tracks.  Two recordings;
\* files carry no release MBID and at most the recording MBID 1; tracks are
\* also loaded by id, files moved to a track after a lookup, and tracks and
\* the NATS album removed from the window.
NatIds == {1, 2}

InitNat ==
    /\ pending_files_count = 0
    /\ files = [fn \in FileNames |-> NoObj]
    /\ fobj = [o \in Objs |-> [filename |-> 0, state |-> "unused", batch |-> 0,
                               match_recordingid |-> 0]]
    /\ parent_item = [o \in Objs |-> NoParent]
    /\ cfiles = {}
    /\ clusters = <<>>
    /\ albums = [a \in {NATS} \cup Mbids |-> "absent"]
    /\ nats = FALSE
    /\ nat_tracks = [r \in NatIds |-> "absent"]
    /\ nat_waiting = {}
    /\ analyzing = {}
    /\ loading = [o \in Objs |-> 0]
    /\ batches = <<>>
    /\ addStack = <<>>
    /\ clusterTasks = {}
    /\ window = [enter |-> 0, exit |-> 0]
    /\ last = NoCall
    /\ CmdInit
    /\ ExitInit
    /\ config = [ignore_file_mbids |-> FALSE, analyze_new_files |-> FALSE,
                 cluster_new_files |-> FALSE, ignore_hidden_files |-> FALSE,
                 ignore_regex |-> "", use_acoustid |-> FALSE]

\* Tagger.create_nats() called on its own.
CreateNats ==
    /\ SetGraph(create_nats(Graph))
    /\ UNCHANGED_intake

\* Tagger.load_mbid('nat', mbid): load_nat(mbid)
LoadNat(r) ==
    /\ SetGraph(load_nat(Graph, r))
    /\ UNCHANGED_intake

\* Tagger.move_file_to_nat(file, recordingid) for a loaded file the tagger
\* knows (a lookup found the recording).
MoveFileToNat(o, r) ==
    /\ fobj[o].state = "normal"
    /\ files[fobj[o].filename] = o
    /\ SetGraph(move_file_to_nat(Graph, o, r))
    /\ UNCHANGED_intake

NextNat ==
    \/ \E paths \in PathLists :
          AddFiles(paths, NoTarget, [i \in 1..Len(paths) |-> TRUE])
    \/ AddFilesContinue
    \/ \E o \in Objs, recordingid \in {0, 1} : FileLoaded(o, FALSE, 0, recordingid, FALSE)
    \/ CreateNats
    \/ \E r \in NatIds : LoadNat(r)
    \/ \E o \in Objs, r \in NatIds : MoveFileToNat(o, r)
    \/ \E r \in NatIds : NatLoaded(r)
    \/ \E r \in NatIds : RemoveNat(r)
    \/ RemoveAlbum(NATS)
    \/ \E o \in Objs : RemoveFiles(o)

SpecNat == InitNat /\ [][NextNat]_vars

\* ---- SpecCluster: clustering and removal over MaxFiles + 1 files that were
\* added and loaded before and wait in the unclustered pool, with two
\* (title, artist) keys.  At most MaxClusterTasks clustering tasks are in flight.
MaxClusterTasks == 1

ClusterObjs == 1..(MaxFiles + 1)

\* (title, artist) pairs the clustering algorithm derives.
TitleArtistKeys == {1, 2}

InitCluster ==
    /\ pending_files_count = 0
    /\ files = [fn \in FileNames |-> fn + 1]
    /\ fobj = [o \in ClusterObjs |-> [filename |-> o - 1, state |-> "normal", batch |-> 0,
                                      match_recordingid |-> 0]]
    /\ parent_item = [o \in ClusterObjs |-> UNCLUSTERED]
    /\ cfiles = {<<UNCLUSTERED, o>> : o \in ClusterObjs}
    /\ clusters = <<>>
    /\ albums = [a \in {NATS} \cup Mbids |-> "absent"]
    /\ nats = FALSE
    /\ nat_tracks = [r \in Mbids |-> "absent"]
    /\ nat_waiting = {}
    /\ analyzing = {}
    /\ loading = [o \in ClusterObjs |-> 0]
    /\ batches = <<>>
    /\ addStack = <<>>
    /\ clusterTasks = {}
    /\ window = [enter |-> 0, exit |-> 0]
    /\ last = NoCall
    /\ CmdInit
    /\ ExitInit
    /\ config = [ignore_file_mbids |-> TRUE, analyze_new_files |-> FALSE,
                 cluster_new_files |-> FALSE, ignore_hidden_files |-> FALSE,
                 ignore_regex |-> "", use_acoustid |-> FALSE]

\* Tagger.cluster(objs) called from the window for files it shows.
ClusterFiles(objs) ==
    /\ Cardinality(clusterTasks) < MaxClusterTasks
    /\ \A i \in 1..Len(objs) : fobj[objs[i]].state = "normal"
    /\ SetGraph(cluster(Graph, objs))
    /\ UNCHANGED_intake

\* The selections of the window: the files of a non-empty set, each once.
Selections == {SetToSeq(S) : S \in (SUBSET ClusterObjs) \ {{}}}

\* The key of a group number no file has does not matter: it is 1.
GroupKeys(grp) ==
    {keyOf \in [DOMAIN grp -> TitleArtistKeys] :
        \A n \in DOMAIN grp : (\A i \in DOMAIN grp : grp[i] # n) => keyOf[n] = 1}

NextCluster ==
    \/ \E objs \in Selections : ClusterFiles(objs)
    \/ \E task \in clusterTasks, error \in BOOLEAN :
          \E grp \in Groupings(Len(task)) : \E keyOf \in GroupKeys(grp) :
             ClusteringFinished(task, error, grp, keyOf)
    \/ \E o \in ClusterObjs : RemoveFiles(o)
    \/ \E k \in TitleArtistKeys : RemoveCluster(k)

SpecCluster == InitCluster /\ [][NextCluster]_vars

\* ------------------------------------------------------------------ properties
BatchDone(b) == batches[b].done = batches[b].size

\* Every batch is complete and no add_files call is suspended.
AllLoaded == addStack = <<>> /\ \A b \in 1..Len(batches) : BatchDone(b)

\* The containers whose file list holds file o.
Holders(o) == {c[1] : c \in {x \in cfiles : x[2] = o}}

\* C1: for a batch of K files _file_loaded runs exactly K times (never more,
\* and the counter is the number of completions still due), and during the
\* life of the batch the counter passes to zero exactly once.
C1_CounterZeroOncePerBatch ==
    /\ pending_files_count
         = Cardinality({<<b, i>> \in (1..Len(batches)) \X (1..MaxObjs) :
                           batches[b].done < i /\ i <= batches[b].size})
    /\ \A b \in 1..Len(batches) :
          /\ batches[b].done <= batches[b].size
          /\ BatchDone(b) => batches[b].zeroed = 1

\* C2: the pending counter is never negative.
C2_CounterNonNegative == pending_files_count >= 0

\* Two batches whose loads overlapped are both complete and the counter is
\* back at zero.
C2_Witness ==
    /\ Len(batches) = 2 /\ AllLoaded
    /\ batches[1].zeroed = 0
    /\ pending_files_count = 0

\* C3: once all files of all batches have completed, every batch-start
\* notification has been matched by one batch-end notification.
C3_EnterExitMatched == AllLoaded => window.exit = window.enter

\* C4: a complete batch with a non-empty unmatched list has, with
\* cluster_new_files enabled, been passed to cluster() exactly once, as exactly
\* that list.
C4_ClusteredOnce ==
    \A b \in 1..Len(batches) :
       (BatchDone(b) /\ batches[b].unmatched # <<>> /\ config.cluster_new_files)
          => batches[b].clustered = <<Unique(batches[b].unmatched)>>

\* C5: after _file_loaded has run for a file that was not removed, the file
\* has a parent, and that parent is the one container holding it.
C5_OneParent ==
    (last.op = "file_loaded" /\ fobj[last.file].state # "removed")
       => /\ parent_item[last.file] # NoParent
          /\ has_add_file(parent_item[last.file])
          /\ Holders(last.file) = {parent_item[last.file]}

\* A target that cannot hold files rejected the file, which went to the
\* unclustered pool.
C5_Witness ==
    /\ last.op = "file_loaded"
    /\ last.target = CLUSTERLIST
    /\ fobj[last.file].state = "normal"
    /\ parent_item[last.file] = UNCLUSTERED

\* C6: a successfully loaded file is placed by its MBIDs when matching is
\* enabled and one of them is valid (track of the named album, the named
\* album, non-album track), never through the target and never in the
\* unclustered pool; else it is placed by move_file with the target.
C6_PlacementTable ==
    (last.op = "file_loaded" /\ fobj[last.file].state = "normal") =>
       LET o == last.file
           a == last.md.albumid
           r == last.md.recordingid
           va == mbid_validate(a)
           vr == mbid_validate(r)
       IN IF config.ignore_file_mbids \/ (~va /\ ~vr)
          THEN last.via = "move_file"
          ELSE /\ parent_item[o] # UNCLUSTERED
               /\ last.via # "move_file"
               /\ (va /\ vr) =>
                     /\ last.via = "move_file_to_track"
                     /\ albums[a] # "absent"
                     /\ fobj[o].match_recordingid = r
                     /\ parent_item[o] = IF albums[a] = "loaded"
                                         THEN TrackC(a, r) ELSE AlbumUnmatched(a)
               /\ (va /\ ~vr) =>
                     /\ last.via = "move_file_to_album"
                     /\ albums[a] # "absent"
                     /\ parent_item[o] = AlbumUnmatched(a)
               /\ (~va /\ vr) =>
                     /\ last.via = "move_file_to_nat"
                     /\ nats /\ albums[NATS] # "absent"
                     /\ nat_tracks[r] # "absent"
                     /\ parent_item[o] = IF nat_tracks[r] = "loaded"
                                         THEN TrackC(NATS, r) ELSE AlbumUnmatched(NATS)

\* A file with both MBIDs, added with a target, is on the recording's track.
C6_Witness ==
    /\ last.op = "file_loaded"
    /\ last.target \notin {NoTarget, AlbumT(1)}
    /\ mbid_validate(last.md.albumid) /\ mbid_validate(last.md.recordingid)
    /\ parent_item[last.file] = TrackC(last.md.albumid, last.md.recordingid)

\* C7: a file whose load failed is in the unclustered pool and nothing else
\* was done with it: no MBID matching, no analysis, no entry in the unmatched
\* list; the other loads of the batch stay in flight.
C7_ErrorToUnclustered ==
    (last.op = "file_loaded" /\ fobj[last.file].state = "error") =>
       LET o == last.file
           b == fobj[o].batch
       IN /\ last.via = "has_error"
          /\ parent_item[o] = UNCLUSTERED
          /\ Holders(o) = {UNCLUSTERED}
          /\ fobj[o].match_recordingid = 0
          /\ \A w \in nat_waiting : w[2] # o
          /\ o \notin analyzing
          /\ o \notin SeqToSet(batches[b].unmatched)
          /\ pending_files_count
               = Cardinality({x \in Objs : loading[x] > 0})
                 + Cardinality({x \in Objs : \E i \in 1..Len(addStack) :
                                   x \in SeqToSet(addStack[i].rest)})

\* A file with valid MBIDs failed to load while another file of its batch was
\* still loading.
C7_Witness ==
    /\ last.op = "file_loaded"
    /\ fobj[last.file].state = "error"
    /\ mbid_validate(last.md.albumid)
    /\ ~config.ignore_file_mbids /\ config.analyze_new_files
    /\ \E x \in Objs : x # last.file /\ fobj[x].batch = fobj[last.file].batch
                       /\ loading[x] > 0

\* C8: the keys of Tagger.files are the files known to the system: a file
\* held by a container is the value of its name's key, and the file of a key
\* is still to be loaded or held by a container.
C8_FilesTable ==
    /\ \A c \in cfiles : files[fobj[c[2]].filename] = c[2]
    /\ \A fn \in FileNames :
          files[fn] # NoObj =>
             \/ loading[files[fn]] > 0
             \/ \E i \in 1..Len(addStack) : files[fn] \in SeqToSet(addStack[i].rest)
             \/ Holders(files[fn]) # {}

\* What add_files does for the paths it opens successfully: one File entry
\* per name, none for a name that was a key already, every new file submitted
\* for loading once, the counter raised by the number of files submitted.
AddFilesDedup ==
    /\ \A o \in Objs : loading[o] <= 1
    /\ \A o \in Objs : ~(loading[o] > 0 /\ \E i \in 1..Len(addStack) :
                                               o \in SeqToSet(addStack[i].rest))
    /\ last.op = "add_files" =>
          /\ \A i \in 1..Len(last.opened) : last.opened[i].name \notin last.keys
          /\ \A i, j \in 1..Len(last.new_files) :
                i # j => fobj[last.new_files[i]].filename # fobj[last.new_files[j]].filename
          /\ \A i \in 1..Len(last.new_files) :
                LET o == last.new_files[i]
                IN /\ files[fobj[o].filename] = o
                   /\ fobj[o].filename \notin last.keys
                   /\ \/ loading[o] = 1
                      \/ addStack # <<>> /\ o \in SeqToSet(addStack[Len(addStack)].rest)
          /\ pending_files_count = last.count + Len(last.new_files)

C11_MalformedRegexIgnored ==
    (last.op = "add_files" /\ config.ignore_regex = "malformed") =>
       /\ [i \in 1..Len(last.opened) |-> last.opened[i].name] = last.nopattern
       /\ \A i \in 1..Len(last.paths) :
             LET fn == normpath(last.paths[i])
             IN (/\ ~(config.ignore_hidden_files /\ is_hidden(fn))
                 /\ ~is_smbdelete(fn)
                 /\ fn \notin last.keys)
                   => \E j \in 1..Len(last.opened) : last.opened[j].name = fn
       /\ \A j \in 1..Len(last.new_files) :
             loading[last.new_files[j]] = 1
             \/ (addStack # <<>> /\ last.new_files[j] \in SeqToSet(addStack[Len(addStack)].rest))
       /\ pending_files_count = last.count + Len(last.new_files)

\* With a malformed pattern and the hidden-file filter on, add_files was given
\* a hidden path and the name a valid pattern would match, and loads the latter.
C11_Witness ==
    /\ last.op = "add_files"
    /\ config.ignore_regex = "malformed"
    /\ config.ignore_hidden_files
    /\ \E i \in 1..Len(last.paths) :
          is_hidden(normpath(last.paths[i])) /\ ~is_smbdelete(normpath(last.paths[i]))
    /\ \E j \in 1..Len(last.new_files) : regex_search("valid", fobj[last.new_files[j]].filename)

\* The consumer thread i is between the dispatch of a command and its
\* completion: it has set the running flag and not yet cleared it.
InFlight(i) == consumers[i].pc \in {"wait", "b1", "b2", "b3", "b4", "b5", "done"}

\* The consumer thread i has dequeued a command and not yet acknowledged it.
Holding(i) == InFlight(i) \/ consumers[i].pc = "ack"

\* C12: at most one remote command is between dispatch and completion.
C12_OneCommandInFlight == Cardinality({i \in ConsumerIds : InFlight(i)}) <= 1

\* C13: the commands are dequeued, dispatched and reported complete in the
\* order in which they were enqueued.
C13_FifoOrder ==
    /\ \A i, j \in 1..Len(cmdlog.dequeued) : i < j => cmdlog.dequeued[i] < cmdlog.dequeued[j]
    /\ \A i, j \in 1..Len(cmdlog.dispatched) : i < j => cmdlog.dispatched[i] < cmdlog.dispatched[j]
    /\ \A i, j \in 1..Len(cmdlog.completed) : i < j => cmdlog.completed[i] < cmdlog.completed[j]

\* C14: no task, web request or fingerprint job started for a command that
\* was reported complete is still queued or executing.
C14_WorkSettled ==
    \A x \in work : x[2] \notin SeqToSet(cmdlog.completed)

\* C15: a command is reported complete only in a state in which no operand of
\* the barrier test is true: every pool count is at most its snapshot, no web
\* request is pending and the fingerprint client is not running.
C15_BarrierSimultaneous ==
    \A i \in ConsumerIds : ~consumers[i].busy_at_done

\* C16: the step that dequeues QUIT posts its handler to the control thread
\* with no one waiting for it, leaves the running flag alone, takes no
\* snapshot and goes straight to task_done; the next step of the thread
\* acknowledges QUIT.
C16_QuitNotBlocking ==
    [][\A i \in ConsumerIds :
          /\ (consumers[i].pc = "get" /\ consumers'[i].cmd.verb = "QUIT") =>
                /\ cmd_running' = cmd_running
                /\ ~consumers'[i].set_running
                /\ ~consumers'[i].snap.taken
                /\ consumers'[i].pc = "ack"
                /\ mainq' = Append(mainq, [cmd |-> consumers'[i].cmd, consumer |-> 0])
          /\ (consumers[i].cmd.verb = "QUIT" /\ consumers'[i] # consumers[i]) =>
                /\ consumers[i].pc = "ack"
                /\ consumers'[i].pc = "loop"
                /\ cmdlog'.acked = Append(cmdlog.acked, consumers[i].cmd.id)
      ]_vars

\* QUIT was acknowledged and its handler has run on the control thread.
C16_Witness ==
    /\ stopping
    /\ \E n \in 1..Len(cmdlog.acked) : cmdlog.verbs[cmdlog.acked[n]] = "QUIT"

\* C17: the step that dequeues a verb that is no key of the command table
\* leaves the running flag alone, posts no handler, takes no snapshot and
\* goes straight to task_done, after which the thread is back at the top of
\* its loop.
C17_UnknownCommandSkipped ==
    [][\A i \in ConsumerIds :
          /\ (consumers[i].pc = "get" /\ consumers'[i].pc # "get"
                 /\ consumers'[i].cmd.verb \notin commands) =>
                /\ cmd_running' = cmd_running
                /\ mainq' = mainq
                /\ cmdlog'.dispatched = cmdlog.dispatched
                /\ ~consumers'[i].snap.taken
                /\ ~consumers'[i].set_running
                /\ consumers'[i].pc = "ack"
          /\ (consumers[i].pc = "ack" /\ consumers[i].cmd.verb \notin commands
                 /\ consumers'[i] # consumers[i]) =>
                /\ consumers'[i].pc = "loop"
                /\ cmd_running' = cmd_running
      ]_vars

\* A verb that is no key of the table was acknowledged and the command
\* enqueued after it was dequeued and reported complete.
C17_Witness ==
    \E n \in 1..Len(cmdlog.acked) :
       /\ cmdlog.verbs[cmdlog.acked[n]] \notin commands
       /\ cmdlog.acked[n] + 1 \in SeqToSet(cmdlog.completed)

MultiGroups(result) == {i \in 1..Len(result) : Cardinality(result[i].files) > 1}

RemovableLists ==
    LET seen == {o \in DOMAIN fobj : fobj[o].state # "unused"}
    IN {<<o>> : o \in seen} \cup {<<o, p>> : o \in seen, p \in seen}

\* C20: remove_files called for a file whose name is no key of Tagger.files
\* changes nothing of the entity graph (files table, fingerprint requests,
\* containers, file state), whatever from_parent is, and a second
\* remove_files of the same files leaves the graph as the first call left it.
C20_RemoveFilesIdempotent ==
    /\ (last.op = "remove_files" /\ ~last.was_key) => ~last.changed
    /\ \A o \in DOMAIN fobj : \A from_parent \in BOOLEAN :
          (fobj[o].state # "unused" /\ files[fobj[o].filename] = NoObj) =>
             remove_files(Graph, <<o>>, from_parent) = Graph
    /\ \A fs \in RemovableLists : \A from_parent \in BOOLEAN :
          LET once == remove_files(Graph, fs, from_parent)
          IN remove_files(once, fs, from_parent) = once

\* remove_files ran for a removed file whose name is no key, while a container
\* still holds the file and a fingerprint or clustering job may still name it.
C20_Witness ==
    /\ last.op = "remove_files" /\ ~last.was_key
    /\ fobj[last.file].state = "removed"
    /\ Holders(last.file) # {}

\* The position of the call named `call` in the steps, 0 when it was not made.
StepOf(steps, call) ==
    IF \E n \in 1..Len(steps) : steps[n].call = call
    THEN CHOOSE n \in 1..Len(steps) : steps[n].call = call
    ELSE 0

\* C21: removing a file that is present in Tagger.files asks for the
\* cancellation of its lookup task and of its fingerprint analysis while the
\* file is still a key and still held as before; only then the key is
\* deleted and the file detached.  After remove_files (from_parent true) the
\* file is no key, is held by no container and is not being fingerprinted.
C21_CancelBeforeRemove ==
    (last.op = "remove_files" /\ last.present) =>
       LET steps == last.steps
           o == last.file
       IN /\ StepOf(steps, "clear_lookup_task") > 0
          /\ StepOf(steps, "stop_analyze") > 0
          /\ \A n \in 1..Len(steps) :
                (~steps[n].is_key \/ steps[n].holders # last.held
                   \/ steps[n].state = "removed") =>
                   /\ StepOf(steps, "clear_lookup_task") < n
                   /\ StepOf(steps, "stop_analyze") <= n
                   /\ steps[n].call # "stop_analyze"
          /\ steps[Len(steps)] = Observe("remove", Graph, o)
          /\ files[fobj[o].filename] = NoObj
          /\ Holders(o) = {}
          /\ o \notin analyzing
          /\ fobj[o].state = "removed"

\* A file that is a key, is held by a container and is being fingerprinted
\* was removed.
C21_Witness ==
    /\ last.op = "remove_files" /\ last.present
    /\ last.held # {}
    /\ ~last.steps[2].analyzing /\ last.steps[1].analyzing
    /\ Holders(last.file) = {}

\* The positions of the barrier wait.
BarrierPcs == {"b1", "b2", "b3", "b4", "b5"}

\* C25: at most one command consumer is alive, so that the pipe server and
\* the consumer occupy at most two threads of the general pool and at least
\* one of its max(3, ideal) threads is left for other tasks.
C25_GeneralPoolThreadFree ==
    /\ Cardinality(ConsumersAlive) <= 1
    /\ \A ideal \in IdealThreadCounts :
          general_max_threads(ideal) - (1 + Cardinality(ConsumersAlive)) >= 1

\* C27: a command that is not QUIT goes through set_running(True), the
\* snapshot, the dispatch, the handler's return, the barrier polls and
\* set_running(False) in this order: while it waits for its handler the
\* handler is posted or running, no barrier poll happens before the
\* handler has returned, and the running flag is true from the dispatch
\* until the barrier has passed.
C27_CommandStepOrder ==
    \A i \in ConsumerIds :
       LET posted == \E n \in 1..Len(mainq) : mainq[n].cmd.id = consumers[i].cmd.id
       IN /\ consumers[i].pc = "wait" => posted
          /\ consumers[i].pc \in BarrierPcs \cup {"done"} =>
                /\ ~posted
                /\ consumers[i].cmd.id \in SeqToSet(cmdlog.dispatched)
                /\ consumers[i].cmd.id \notin SeqToSet(cmdlog.completed)
          /\ consumers[i].pc \in {"wait", "done"} \cup BarrierPcs =>
                /\ consumers[i].set_running
                /\ consumers[i].snap.taken
                /\ cmd_running

\* C28: while the application is not stopping a command consumer does not
\* terminate: with an empty queue it stays alive and waits.
C28_ConsumerStaysAlive ==
    [][\A i \in ConsumerIds :
          (consumers[i].pc # "none" /\ consumers'[i].pc = "none") => stopping]_vars

\* C29: no command is left in the queue with no consumer to handle it: while
\* the application is not stopping and the queue is not empty, a consumer is
\* alive or a caller of load_to_picard is about to start one.
C29_NoCommandStranded ==
    (command_queue # <<>> /\ ~stopping) =>
       \/ ConsumersAlive # {}
       \/ \E t \in Callers : callers[t] \in {"start", "set"}

\* Consumer i is in its barrier wait and a barrier condition is violated.
Stalled(i) ==
    /\ consumers[i].pc \in BarrierPcs
    /\ \E k \in 1..Len(Resources) : barrier_busy(k, consumers[i].snap, work)

\* C30: while a barrier condition is violated the command stays in its
\* barrier wait with the running flag set (a poll that reads a violated
\* condition goes back to sleep), and no further command is dequeued or
\* dispatched.
C30_BarrierStalls ==
    [][(\E i \in ConsumerIds : Stalled(i)) =>
          /\ cmd_running
          /\ cmdlog'.dequeued = cmdlog.dequeued
          /\ cmdlog'.dispatched = cmdlog.dispatched
          /\ \A i \in ConsumerIds : \A k \in 1..Len(Resources) :
                (consumers[i].pc = <<"b1", "b2", "b3", "b4", "b5">>[k]
                   /\ barrier_busy(k, consumers[i].snap, work)) =>
                   consumers'[i].pc \in BarrierPcs]_vars

\* C22: whoever calls quit() and exit(), and however often, each registered
\* cleanup function is called at most once, and the calls come in the reverse
\* of the order of registration: the three pool drains are the last three,
\* the drain of the general pool the last of all.
C22_CleanupOnceInReverse ==
    /\ Len(cleaned) <= Len(exit_cleanup)
    /\ \A n \in 1..Len(cleaned) : cleaned[n] = exit_cleanup[Len(exit_cleanup) + 1 - n]
    /\ \A m, n \in 1..Len(cleaned) : m # n => cleaned[m] # cleaned[n]
    /\ \A n \in 1..Len(cleaned) :
          /\ cleaned[n] \in DOMAIN Drains <=> n > Len(exit_cleanup) - 3
          /\ cleaned[n] = "thread_pool.waitForDone" <=> n = Len(exit_cleanup)

\* The QUIT handler and sighandler have both called quit(), run() has called
\* exit() and returned, and every cleanup function was called.
C22_Witness ==
    /\ app = "ended"
    /\ sighandled >= 1
    /\ mainq = <<>>
    /\ \E n \in 1..Len(cmdlog.dispatched) : cmdlog.verbs[cmdlog.dispatched[n]] = "QUIT"
    /\ Len(cleaned) = Len(exit_cleanup)

\* C23: once a pool drain of the shutdown has been called, nothing is
\* submitted to a pool any more: no command consumer starts, no task, no
\* clustering task and no file load is added.
C23_NoSubmissionAfterDrain ==
    [][DrainInvoked =>
          /\ ConsumersAlive' \subseteq ConsumersAlive
          /\ work' \subseteq work
          /\ clusterTasks' \subseteq clusterTasks
          /\ \A o \in DOMAIN loading : loading'[o] <= loading[o]]_vars

\* C24: the signal handler does nothing but send one byte; sighandler runs on
\* the control thread when it takes events, reads that byte back and calls
\* quit(), after which the tagger is stopping.
C24_SignalBridge ==
    [][/\ signalfd' > signalfd =>
             /\ signalfd' = signalfd + 1
             /\ UNCHANGED <<intakevars, cmdvars, exit_cleanup, cleaned, exit_state,
                            app, signalnotifier, pipe_running, sighandled>>
       /\ sighandled' > sighandled =>
             /\ MainFree
             /\ stopping'
             /\ signalfd' = signalfd - 1]_vars

\* _file_loaded just ran for a file that loaded, carries no usable MBID, has
\* no target and was sent to fingerprint analysis (analyze_new_files is
\* enabled and the file can be analyzed).
AnalyzedOnAdd ==
    /\ last.op = "file_loaded"
    /\ fobj[last.file].state = "normal"
    /\ last.via = "move_file"
    /\ last.target = NoTarget
    /\ config.analyze_new_files
    /\ last.md.can_analyze

\* C26: a loaded file that is still unplaced and is sent to fingerprint
\* analysis on add is not in the unmatched list of its batch and is in no
\* clustering task started for the batch.
C26_AnalyzedNotUnmatched ==
    AnalyzedOnAdd =>
       /\ last.file \in analyzing
       /\ last.file \notin SeqToSet(batches[fobj[last.file].batch].unmatched)
       /\ \A task \in clusterTasks : last.file \notin SeqToSet(task)

\* C32: Tagger.clusters never holds two clusters with the same (title,
\* artist); a clustering completion keeps the clusters it found, each at its
\* place, and appends one cluster per pair of a multi-member group that had
\* none, also when two groups of the result carry the same pair.
C32_ClusterKeysUnique ==
    /\ \A i, j \in 1..Len(clusters) : i # j => clusters[i] # clusters[j]
    /\ (last.op = "clustering_finished" /\ ~last.error) =>
          LET newkeys == {last.result[i].key : i \in MultiGroups(last.result)}
          IN /\ SubSeq(clusters, 1, Len(last.clusters)) = last.clusters
             /\ \A n \in (Len(last.clusters) + 1)..Len(clusters) :
                   clusters[n] \in newkeys \ SeqToSet(last.clusters)
             /\ \A k \in newkeys :
                   Cardinality({n \in 1..Len(clusters) : clusters[n] = k}) = 1

\* A result with two multi-member groups of the same pair, and a second
\* cluster that existed before, left one cluster per pair.
C32_Witness ==
    /\ last.op = "clustering_finished" /\ ~last.error
    /\ Len(last.result) = 2
    /\ MultiGroups(last.result) = {1, 2}
    /\ last.result[1].key = last.result[2].key
    /\ Len(last.clusters) = 1
    /\ last.clusters[1] # last.result[1].key
    /\ Len(clusters) = 2
    /\ parent_item[1] = ClusterC(last.result[1].key)

\* C38: the step in which a clustering task ends with an error changes
\* nothing of the entity graph (no cluster is created, no file moves, no key
\* changes) and opens no loading window, and the callback given to cluster()
\* is not called.
C38_ClusteringErrorNoEffect ==
    [][(clusterTasks' # clusterTasks /\ last'.op = "clustering_finished" /\ last'.error) =>
          /\ UNCHANGED <<files, fobj, parent_item, cfiles, clusters, albums, nats,
                         nat_tracks, nat_waiting, analyzing, window,
                         pending_files_count>>
          /\ ~last'.callback_called[TRUE]
          /\ ~last'.callback_called[FALSE]]_vars

\* A clustering task over all the files ended with an error while a cluster
\* existed; a task that ends without error calls the callback it was given.
C38_Witness ==
    /\ last.op = "clustering_finished" /\ last.error
    /\ Len(last.task) = MaxFiles + 1
    /\ clusters # <<>>
    /\ clusterTasks = {}
    /\ clustering_finished_callback(TRUE, FALSE)

\* The target move_file hands to File.move: the parent of a File target that
\* has one, else the target itself.
MoveTarget(g, target) ==
    IF target[1] = "File" /\ g.parent_item[target[2]] # NoParent
    THEN g.parent_item[target[2]] ELSE target

\* The containers of graph g that hold file o.
HoldersIn(g, o) == {c[1] : c \in {x \in g.cfiles : x[2] = o}}

\* C36: move_file returns where the file went, or None.  A target that takes
\* the file (a File target standing for its parent) is returned and holds the
\* file; an Album target is returned and the file is in that album; when the
\* target rejects the file, a file without parent goes to the unclustered
\* pool, which is returned, and for a file with a parent None is returned and
\* nothing changes.  A file is in one container afterwards, the one it was
\* moved to, and only the file's own placement changes.
C36_MoveFileReturn ==
    \A o \in Objs : \A target \in Targets :
       fobj[o].state \in {"pending", "normal", "error"} =>
          LET r == move_file(Graph, o, target)
              t == MoveTarget(Graph, target)
              rejected == ~has_add_file(t) \/ t = parent_item[o]
          IN /\ r.target \in {NoTarget, UNCLUSTERED, t}
             /\ HoldersIn(r.g, o) = {r.g.parent_item[o]} \ {NoParent}
             /\ r.g.parent_item[o] # NoParent
             /\ \A p \in Objs \ {o} : r.g.parent_item[p] = parent_item[p]
             /\ r.g.files = files /\ r.g.clusters = clusters
             /\ target[1] = "Album" =>
                   /\ r.target = target
                   /\ r.g.parent_item[o][1] \in {"album_unmatched", "track"}
                   /\ r.g.parent_item[o][2] = target[2]
             /\ (target[1] # "Album" /\ ~rejected) =>
                   r.target = t /\ r.g.parent_item[o] = t
             /\ (target[1] # "Album" /\ rejected /\ parent_item[o] = NoParent) =>
                   r.target = UNCLUSTERED /\ r.g.parent_item[o] = UNCLUSTERED
             /\ (target[1] # "Album" /\ rejected /\ parent_item[o] # NoParent) =>
                   r.target = NoTarget /\ r.g = Graph
             /\ (target[1] # "Album" /\ r.target # NoTarget) =>
                   r.g.parent_item[o] = r.target

\* _file_loaded has placed a file through move_file with a target that cannot
\* hold files, and the file went to the unclustered pool; another file that
\* has a parent is rejected by a File target whose parent is that same
\* container, and by the cluster list.
C36_Witness ==
    /\ last.op = "file_loaded" /\ last.via = "move_file"
    /\ last.target = CLUSTERLIST
    /\ parent_item[last.file] = UNCLUSTERED
    /\ \E o \in Objs \ {last.file} :
          /\ parent_item[o] = UNCLUSTERED
          /\ move_file(Graph, o, FileT(last.file)).target = NoTarget
          /\ move_file(Graph, o, CLUSTERLIST).target = NoTarget

\* The files of batch b whose load is submitted and has not completed, and
\* those the suspended submission loop has still to submit.
LoadingOf(b) == {o \in Objs : fobj[o].batch = b /\ loading[o] > 0}
UnsubmittedOf(b) ==
    {o \in Objs : fobj[o].batch = b /\ \E i \in 1..Len(addStack) :
                                          o \in SeqToSet(addStack[i].rest)}

\* C34: add_files sends the batch-start notification and adds K to the
\* counter before it submits the first load: from the step that creates the
\* batch until its K-th completion the counter is at least the number of
\* completions the batch still waits for, hence not zero, also while the
\* submission loop is suspended in processEvents with loads yet to submit;
\* and as many notifications as batches were sent.
C34_CounterCoversBatch ==
    /\ window.enter = Len(batches)
    /\ \A b \in 1..Len(batches) :
          LET due == batches[b].size - batches[b].done
          IN /\ due >= 0
             /\ due = Cardinality(LoadingOf(b)) + Cardinality(UnsubmittedOf(b))
             /\ due > 0 => pending_files_count >= due /\ pending_files_count # 0
    /\ (last.op = "add_files" /\ last.new_files # <<>>) =>
          /\ pending_files_count = last.count + Len(last.new_files)
          /\ batches[Len(batches)].size = Len(last.new_files)
          /\ batches[Len(batches)].done = 0

\* A completion callback of a batch of two files ran while the submission
\* loop of that batch was suspended with one load still to submit.
C34_Witness ==
    \E b \in 1..Len(batches) :
       /\ batches[b].size = 2 /\ batches[b].done = 1
       /\ Cardinality(UnsubmittedOf(b)) = 1
       /\ pending_files_count = 1
       /\ last.op = "file_loaded" /\ fobj[last.file].batch = b

\* C35: the loads of a batch are submitted in ascending order of file name,
\* whatever the order of the paths given: new_files is in strictly ascending
\* order and holds the files opened; while the submission loop is suspended
\* the files it has still to submit are in ascending order and every one of
\* them has a greater name than every file of the batch already submitted.
C35_SubmittedInNameOrder ==
    /\ (last.op = "add_files") =>
          /\ \A i, j \in 1..Len(last.new_files) :
                i < j => fobj[last.new_files[i]].filename < fobj[last.new_files[j]].filename
          /\ SeqToSet(last.new_files)
                = {last.opened[i].file : i \in 1..Len(last.opened)} \ {NoObj}
    /\ \A n \in 1..Len(addStack) :
          LET rest == addStack[n].rest
          IN /\ \A i, j \in 1..Len(rest) :
                   i < j => fobj[rest[i]].filename < fobj[rest[j]].filename
             /\ \A i \in 1..Len(rest) : \A o \in Objs :
                   (fobj[o].batch = fobj[rest[i]].batch /\ o \notin SeqToSet(rest))
                      => fobj[o].filename < fobj[rest[i]].filename

\* Two paths were given in descending order (the File objects are created in
\* the order of the paths); the file with the smaller name was submitted
\* first, and the file with the greater name has completed before it.
C35_Witness ==
    /\ fobj[1].batch = fobj[2].batch /\ fobj[1].batch > 0
    /\ fobj[1].filename > fobj[2].filename
    /\ last.op = "file_loaded" /\ last.file = 1
    /\ loading[2] = 1
    /\ batches[fobj[1].batch].done = 1

\* The non-album tracks of the NATS album.
NatTracks == {x \in DOMAIN nat_tracks : nat_tracks[x] # "absent"}

\* C39: Tagger.nats is set exactly when Tagger.albums has the NATS album, and
\* tracks and waiting files exist only with it.  A NatAlbum is created only
\* when there is none, and then entered in Tagger.albums in the same step;
\* the step that removes the last non-album track removes the NATS album and
\* resets Tagger.nats, the step that removes another track leaves both.
C39_NatsIffAlbum ==
    /\ [](/\ nats <=> albums[NATS] # "absent"
          /\ ~nats => NatTracks = {} /\ nat_waiting = {}
          /\ (last.op = "remove_nat" /\ last.tracks = {last.track}) =>
                ~nats /\ albums[NATS] = "absent"
          /\ (last.op = "remove_nat" /\ last.tracks # {last.track}) =>
                /\ nats /\ albums[NATS] # "absent"
                /\ NatTracks = last.tracks \ {last.track})
    /\ [][/\ (~nats /\ nats') => albums[NATS] = "absent" /\ albums'[NATS] # "absent"
          /\ (nats /\ NatTracks' = {}) =>
                NatTracks = {} \/ (~nats' /\ albums'[NATS] = "absent")]_vars

\* remove_nat has removed the only non-album track left: the NATS album is
\* gone with the file that waited in it, and a file of the unclustered pool
\* stays where it is.
C39_Witness ==
    /\ last.op = "remove_nat" /\ last.tracks = {last.track}
    /\ ~nats /\ albums[NATS] = "absent"
    /\ \E o \in Objs : fobj[o].state = "removed" /\ fobj[o].match_recordingid = 0
                       /\ files[fobj[o].filename] = NoObj
    /\ \E o \in Objs : fobj[o].state = "normal" /\ parent_item[o] = UNCLUSTERED

\* exit() is running the cleanup functions while a remote command is in the
\* queue, waits for its handler (blocking dispatch) or is in its barrier wait.
ExitDuringCommand ==
    /\ exit_state.pc = "cleanup"
    /\ \/ command_queue # <<>>
       \/ \E i \in ConsumerIds : consumers[i].pc \in {"wait"} \cup BarrierPcs

\* C37: the shutdown terminates: whenever exit() runs the cleanup while a
\* command is queued, being dispatched in blocking mode or in barrier wait,
\* the cleanup sequence, the drain of the general pool included, completes in
\* the end, under fair scheduling of the threads.
C37_ShutdownTerminates == ExitDuringCommand ~> (exit_state.pc # "cleanup")

\* Consumer i is past the dispatch of its command (the handler has returned)
\* and has not yet reported it complete.
PastDispatch(i) == consumers[i].pc \in BarrierPcs \cup {"done"}

\* What the barrier of consumer i waits for holds: every pool's active count
\* is at most its snapshot, no web request is pending, the fingerprint
\* client is idle.
Quiet(i) ==
    /\ active_count(work, "priority") <= consumers[i].snap.priority
    /\ active_count(work, "general") <= consumers[i].snap.general
    /\ active_count(work, "save") <= consumers[i].snap.save
    /\ active_count(work, "web") = 0
    /\ active_count(work, "acoustid") = 0

\* C31: a command whose handler has returned does not wait for ever once the
\* barrier conditions hold for good: under fair scheduling of the consumer
\* no behaviour ends with the consumer past the dispatch and the conditions
\* holding for ever; and the step that reports the command complete clears
\* the running flag.
C31_BarrierPassesWhenQuiet ==
    /\ \A i \in ConsumerIds : []<>(~(PastDispatch(i) /\ Quiet(i)))
    /\ [][\A i \in ConsumerIds :
             (consumers[i].pc = "done" /\ consumers'[i].pc # "done") =>
                /\ cmd_running' = FALSE
                /\ cmdlog'.completed = Append(cmdlog.completed, consumers[i].cmd.id)]_vars

\* The first command was dispatched, passed its barrier with every condition
\* holding and was reported complete; no work is left and the running flag
\* is cleared.
C31_Witness ==
    /\ \E n \in 1..Len(cmdlog.completed) : cmdlog.completed[n] = 1
    /\ ~cmd_running
    /\ work = {}
    /\ Len(cmdlog.dispatched) = 1
    /\ \A i \in ConsumerIds : ~consumers[i].busy_at_done

\* The entity graph: Tagger.files, the clusters, the albums and non-album
\* tracks, the containers' file lists (the unclustered pool among them) and
\* the files' parents and state.
EntityGraph == <<files, fobj, parent_item, cfiles, clusters, albums, nats, nat_tracks>>

\* A step of a worker thread, told by what it changes: the pipe server moves
\* on in its loop or in load_to_picard; a command consumer starts, moves on
\* or ends (the return of a handler, which takes the consumer from its wait
\* to the barrier, is the control thread's); a task, request or job ends;
\* a clustering task runs.
WorkerStep ==
    \/ callers'["pipe"] # callers["pipe"]
    \/ \E i \in ConsumerIds :
          /\ consumers'[i] # consumers[i]
          /\ ~(consumers[i].pc = "wait" /\ consumers'[i].pc = "b1")
    \/ command_queue' # command_queue
    \/ work' # work /\ work' \subseteq work
    \/ last' # last /\ last'.op = "do_clustering"

\* C33: no step of a worker thread (pipe server, command consumer with its
\* barrier polls, clustering task) changes Tagger.files, the clusters, the
\* albums, a container's file list or a file's parent; a step that changes
\* one of them is taken by the control thread while it takes events: a
\* completion callback, add_files or a handler.
C33_WorkersLeaveGraph ==
    [][/\ WorkerStep => UNCHANGED EntityGraph
       /\ ~UNCHANGED EntityGraph => MainFree /\ ~WorkerStep]_vars

\* The pipe server has enqueued a command, a consumer has taken it through
\* its barrier, and a clustering task runs for a file that _file_loaded put
\* in the unclustered pool.
C33_Witness ==
    /\ last.op = "do_clustering"
    /\ \A n \in 1..Len(last.task) : parent_item[last.task[n]] = UNCLUSTERED
    /\ cmdlog.completed # <<>>
    /\ cmdlog.acked # <<>>

\* C10: with ignore_hidden_files enabled no hidden path is opened, is a key
\* of Tagger.files, is a File of a batch or is loading.
C10_HiddenIgnored ==
    config.ignore_hidden_files =>
       /\ \A fn \in FileNames : is_hidden(fn) => files[fn] = NoObj
       /\ \A o \in Objs : fobj[o].state # "unused" => ~is_hidden(fobj[o].filename)
       /\ last.op = "add_files" =>
             \A i \in 1..Len(last.opened) : ~is_hidden(last.opened[i].name)

\* add_files was given a hidden path and a plain one, and loads the plain one.
C10_Witness ==
    /\ last.op = "add_files"
    /\ config.ignore_hidden_files
    /\ \E i \in 1..Len(last.paths) :
          is_hidden(normpath(last.paths[i])) /\ ~is_smbdelete(normpath(last.paths[i]))
    /\ Len(last.new_files) = 1
    /\ pending_files_count = last.count + 1

====
